---- MODULE Spec2Model ----
(***************************************************************************)
(* A model of mdempsky/unconvert: the detector of redundant conversions,   *)
(* the cross-configuration merge of its edit sets, the edit applier and    *)
(* the main driver.  Each component has a specification of its own         *)
(* (SpecMerge, SpecDetect, SpecApply, SpecMain) over the shared variables; *)
(* a component's specification leaves the other components' variables at   *)
(* their idle values.                                                      *)
(***************************************************************************)
EXTENDS Integers, Sequences, FiniteSets, TLC

(***************************************************************************)
(* Bounds of the model.                                                    *)
(***************************************************************************)
\* How many build configurations mergeEdits analyses (a prefix of plats).
NumPlats == 3

\* The files of the initial packages in the model of computeEdits.
NumFiles == 2

\* How many distinct edits the file of the merge model can receive.
MaxEdits == 2

\* The length in bytes of the file apply rewrites.
BufLen == 3

\* How many edits one call of apply receives at most.
MaxApplyEdits == 3

\* How many syntax nodes a generated expression of the detector model has at
\* most.
MaxExprSize == 4

(***************************************************************************)
(* Generic helpers.                                                        *)
(***************************************************************************)
Range(s) == {s[i] : i \in 1..Len(s)}

\* map[string]T is a function whose DOMAIN is the set of keys present.
EmptyMap == [f \in {} |-> <<>>]

(***************************************************************************)
(* Edits: half-open byte ranges {Pos, End} of one file.                    *)
(***************************************************************************)
Edit(pos, end) == [Pos |-> pos, End |-> end]

\* editsByPos.Less
Less(a, b) == a.Pos < b.Pos

(***************************************************************************)
(* The configuration merger: mergeEdits, intersect, doSub.                 *)
(***************************************************************************)
\* The build configurations analysed: the first NumPlats rows of the table.
plats == 1..NumPlats

\* The source files of the merge model.  A file is compiled under some
\* configurations and not under others.
MergeFiles == {"a.go"}

\* The edits the detector may find in a file of the merge model: MaxEdits
\* disjoint ranges.
MergeEditUniverse == {Edit(3 * i, 3 * i + 2) : i \in 0..(MaxEdits - 1)}

\* The edit list of one file as computeEdits leaves it: sorted by Pos.
SortedEditLists ==
    {s \in UNION {[1..n -> MergeEditUniverse] : n \in 0..MaxEdits} :
        \A i, j \in 1..Len(s) : i < j => Less(s[i], s[j])}

\* What one configuration's analysis returns: an entry for every file that
\* is compiled under the configuration, none for the others.
SubResults == UNION {[fs -> SortedEditLists] : fs \in SUBSET MergeFiles}

intersectWrongSide(e1, e2) ==
    IF Len(e1) = 0 \/ Len(e2) = 0 THEN <<>> ELSE e2

intersect(e1, e2) ==
    IF Len(e1) = 0 \/ Len(e2) = 0
        THEN <<>>
        ELSE SelectSeq(e2, LAMBDA e : e \in Range(e1))

\* A merge that keeps only the files both maps hold.
mergeFoldBothOnly(m0, m1) ==
    [f \in DOMAIN m0 \cap DOMAIN m1 |-> intersect(m0[f], m1[f])]

\* A merge in which the later map replaces the entry.
mergeFoldOverwrite(m0, m1) ==
    [f \in DOMAIN m0 \cup DOMAIN m1 |->
        IF f \in DOMAIN m1 THEN m1[f] ELSE m0[f]]

\* The body of mergeEdits' receive loop for one received map m1.
mergeFold(m0, m1) ==
    [f \in DOMAIN m0 \cup DOMAIN m1 |->
        IF f \in DOMAIN m1
            THEN IF f \in DOMAIN m0 THEN intersect(m0[f], m1[f]) ELSE m1[f]
            ELSE m0[f]]

\* mergeEdits as the sequential loop over plats: the fold of the first n
\* configurations' maps, in table order.
RECURSIVE mergeEditsSeq(_, _)
mergeEditsSeq(res, n) ==
    IF n = 0 THEN EmptyMap ELSE mergeFold(mergeEditsSeq(res, n - 1), res[n])

VARIABLES
    subRes,     \* merge: what doSub returned for each configuration, or NoResult
    wpc,        \* merge: each worker goroutine's position
    chClosed,   \* merge: whether the result channel is closed
    m,          \* merge: the merged map being built
    mpc,        \* merge: the receiving loop's position
    recvOrder,  \* merge: the configurations in the order they were received
    hasWG,      \* merge: whether this mergeEdits ends its loop on a sync.WaitGroup and close
    edits,      \* apply: the edits slice (sorted in place)
    editsIn,    \* apply: the edits slice as the caller passed it
    disk,       \* apply: the bytes of the file on disk
    diskIn,     \* apply: the bytes of the file when apply was called
    buf,        \* apply: the buffer read from the file
    apc,        \* apply: the position in apply
    fatal,      \* apply: the argument of log.Fatal, or "" while none
    didRead,    \* apply: whether ioutil.ReadFile has been called
    didWrite,   \* apply: whether ioutil.WriteFile has been called
    flagAll,    \* main: the -all flag
    flagApply,  \* main: the -apply flag
    mainPc,     \* main: the position in main
    platIdx,    \* main: the index of the next row of plats in mergeEdits
    mm,         \* main: the map m of main (file -> offsets of conversions)
    tasks,      \* main: the state of each file's apply goroutine
    written,    \* main: the files apply has rewritten
    out,        \* main: the diagnostics printed so far
    printIdx,   \* main: how many files the report loop has printed
    exitCode,   \* main: the exit status (-1 while the process runs)
    v_repr,     \* detect: the type of visitor.edits, "Edit" ([]Edit) or "Sparse"
    astFile,    \* detect: the *ast.File being walked
    walk,       \* detect: what ast.Walk has still to do, innermost first
    v_nodes,    \* detect: visitor.nodes, each node named by its path from the root
    v_edits,    \* detect: visitor.edits when it is a []Edit
    v_offsets,  \* detect: visitor.edits when it is an intsets.Sparse
    dpc,        \* detect: the position of the file's goroutine in computeEdits
    applied,    \* detect: apply has rewritten the file since the tool first read it
    v_missing,  \* detect: the expressions, by path, that v.pkg.Types has no entry for
    ce_files,   \* compute: the *ast.File of every file of the initial packages
    ce_res,     \* compute: the edits each file's goroutine has found
    ce_wpc,     \* compute: each file's goroutine's position
    ce_closed,  \* compute: whether the result channel is closed
    ce_m,       \* compute: the map computeEdits is building
    ce_pc       \* compute: the collecting loop's position

mergeVars == <<subRes, wpc, chClosed, m, mpc, recvOrder, hasWG>>

applyVars == <<edits, editsIn, disk, diskIn, buf, apc, fatal, didRead, didWrite>>

mainVars ==
    <<flagAll, flagApply, mainPc, platIdx, mm, tasks, written, out, printIdx,
      exitCode>>

detectVars == <<v_repr, astFile, walk, v_nodes, v_edits, v_offsets, dpc, applied, v_missing>>

computeVars == <<ce_files, ce_res, ce_wpc, ce_closed, ce_m, ce_pc>>

vars == <<mergeVars, applyVars, mainVars, detectVars, computeVars>>

\* What the actions of one component leave alone: the other components.
mergeFrame == <<applyVars, mainVars, detectVars, computeVars>>

applyFrame == <<mergeVars, mainVars, detectVars, computeVars>>

mainFrame == <<mergeVars, applyVars, detectVars, computeVars>>

detectFrame == <<mergeVars, applyVars, mainVars, computeVars>>

computeFrame == <<mergeVars, applyVars, mainVars, detectVars>>

\* The merger at rest, in the specifications of the other components.
mergeIdle ==
    /\ subRes = <<>>
    /\ wpc = <<>>
    /\ chClosed = FALSE
    /\ m = EmptyMap
    /\ mpc = "idle"
    /\ recvOrder = <<>>
    /\ hasWG = FALSE

\* The applier at rest, in the specifications of the other components.
applyIdle ==
    /\ edits = <<>>
    /\ editsIn = <<>>
    /\ disk = <<>>
    /\ diskIn = <<>>
    /\ buf = <<>>
    /\ apc = "idle"
    /\ fatal = ""
    /\ didRead = FALSE
    /\ didWrite = FALSE

\* The driver at rest, in the specifications of the other components.
mainIdle ==
    /\ flagAll = FALSE
    /\ flagApply = FALSE
    /\ mainPc = "idle"
    /\ platIdx = 0
    /\ mm = EmptyMap
    /\ tasks = EmptyMap
    /\ written = {}
    /\ out = <<>>
    /\ printIdx = 0
    /\ exitCode = -1

\* computeEdits at rest, in the specifications of the other components.
computeIdle ==
    /\ ce_files = <<>>
    /\ ce_res = <<>>
    /\ ce_wpc = <<>>
    /\ ce_closed = FALSE
    /\ ce_m = EmptyMap
    /\ ce_pc = "idle"

\* The detector at rest, in the specifications of the other components.
detectIdle ==
    /\ v_repr = ""
    /\ astFile = <<>>
    /\ walk = <<>>
    /\ v_nodes = <<>>
    /\ v_edits = <<>>
    /\ v_offsets = {}
    /\ dpc = "idle"
    /\ applied = FALSE
    /\ v_missing = {}

\* The place of a result that doSub has not returned yet: no map of files.
NoResult == [none |-> <<>>]

mergeInit ==
    /\ subRes = [c \in plats |-> NoResult]
    /\ wpc = [c \in plats |-> "run"]
    /\ chClosed = FALSE
    /\ m = EmptyMap
    /\ mpc = "recv"
    /\ recvOrder = <<>>
    /\ hasWG = TRUE
    /\ applyIdle
    /\ mainIdle
    /\ detectIdle
    /\ computeIdle

\* A worker runs doSub for its configuration and stands ready to send.
doSub(c) ==
    /\ wpc[c] = "run"
    /\ wpc' = [wpc EXCEPT ![c] = "send"]
    /\ \E r \in SubResults : subRes' = [subRes EXCEPT ![c] = r]
    /\ UNCHANGED <<chClosed, m, mpc, recvOrder, hasWG>>
    /\ UNCHANGED mergeFrame

\* The unbuffered channel hands worker c's map to the receiving loop, which
\* folds it into m.
mergeRecv(c) ==
    /\ mpc = "recv"
    /\ ~chClosed
    /\ wpc[c] = "send"
    /\ m' = mergeFold(m, subRes[c])
    /\ wpc' = [wpc EXCEPT ![c] = "sent"]
    /\ recvOrder' = Append(recvOrder, c)
    /\ UNCHANGED <<subRes, chClosed, mpc, hasWG>>
    /\ UNCHANGED mergeFrame

\* The worker's deferred wg.Done, or the end of a goroutine that has none.
mergeWorkerDone(c) ==
    /\ wpc[c] = "sent"
    /\ wpc' = [wpc EXCEPT ![c] = "done"]
    /\ UNCHANGED <<subRes, chClosed, m, mpc, recvOrder, hasWG>>
    /\ UNCHANGED mergeFrame

\* A closer that does not wait for the workers.
mergeCloseEarly ==
    /\ hasWG
    /\ ~chClosed
    /\ chClosed' = TRUE
    /\ UNCHANGED <<subRes, wpc, m, mpc, recvOrder, hasWG>>
    /\ UNCHANGED mergeFrame

\* wg.Wait returns once every worker is done; then the channel is closed.
mergeClose ==
    /\ hasWG
    /\ ~chClosed
    /\ \A c \in plats : wpc[c] = "done"
    /\ chClosed' = TRUE
    /\ UNCHANGED <<subRes, wpc, m, mpc, recvOrder, hasWG>>
    /\ UNCHANGED mergeFrame

\* The range loop ends on the closed channel, or the loop that receives once
\* for each row of plats has received them all, and mergeEdits returns m.
mergeReturn ==
    /\ mpc = "recv"
    /\ IF hasWG THEN chClosed ELSE Len(recvOrder) = NumPlats
    /\ mpc' = "returned"
    /\ UNCHANGED <<subRes, wpc, chClosed, m, recvOrder, hasWG>>
    /\ UNCHANGED mergeFrame

mergeNext ==
    \/ \E c \in plats : doSub(c)
    \/ \E c \in plats : mergeRecv(c)
    \/ \E c \in plats : mergeWorkerDone(c)
    \/ mergeClose
    \/ mergeReturn

SpecMerge == mergeInit /\ [][mergeNext]_vars

\* mergeEdits with and without the WaitGroup, under a scheduler that runs
\* some goroutine as long as one can run, every doSub returning.
mergeFairInit ==
    /\ subRes = [c \in plats |-> NoResult]
    /\ wpc = [c \in plats |-> "run"]
    /\ chClosed = FALSE
    /\ m = EmptyMap
    /\ mpc = "recv"
    /\ recvOrder = <<>>
    /\ hasWG \in BOOLEAN
    /\ applyIdle
    /\ mainIdle
    /\ detectIdle
    /\ computeIdle

\* What every step of mergeEdits changes: a worker's or the loop's position,
\* or the channel.
mergePositions == <<wpc, chClosed, mpc>>

\* The results the fair runs draw from: a map without the file, with no
\* edit for it, and with every edit of the universe for it.
FewResults ==
    {r \in SubResults : \A f \in DOMAIN r : Len(r[f]) \in {0, MaxEdits}}

\* doSub returning one of FewResults.
doSubFew(c) ==
    /\ doSub(c)
    /\ subRes'[c] \in FewResults

mergeFairNext ==
    \/ \E c \in plats : doSubFew(c)
    \/ \E c \in plats : mergeRecv(c)
    \/ \E c \in plats : mergeWorkerDone(c)
    \/ mergeClose
    \/ mergeReturn

SpecMergeFair ==
    mergeFairInit /\ [][mergeFairNext]_vars /\ WF_mergePositions(mergeFairNext)

(***************************************************************************)
(* The edit applier: apply (the textual-edit versions).                    *)
(***************************************************************************)
\* A byte of a source file: 0 stands for a blank, 1 for any other byte.
Bytes == {0, 1}

\* The deletions a caller may pass: non-empty ranges inside the file.
ApplyEditUniverse ==
    {Edit(x[1], x[2]) : x \in {y \in (0..BufLen) \X (0..BufLen) : y[1] < y[2]}}

ApplyEditLists == UNION {[1..n -> ApplyEditUniverse] : n \in 0..MaxApplyEdits}

\* The slices sort.Sort(editsByPos(edits)) may leave: the arrangements of
\* the same elements in which no element is Less than one before it.
Arrangements(s) ==
    LET n == Len(s)
        bij == {p \in [1..n -> 1..n] : \A i, j \in 1..n : i # j => p[i] # p[j]}
    IN {[i \in 1..n |-> s[p[i]]] : p \in bij}

sortKeepsOrder(s) == {s}

sortEdits(s) ==
    {t \in Arrangements(s) : \A i, j \in 1..Len(t) : i < j => ~Less(t[j], t[i])}

\* An overlap check that also rejects edits that only touch.
overlapOrTouch(es) == \E i \in 2..Len(es) : es[i - 1].End >= es[i].Pos

\* The loop "Check for overlap" of apply.
overlap(es) == \E i \in 2..Len(es) : es[i - 1].End > es[i].Pos

\* Go's built-in copy(dst, src): the bytes of dst after the call.
copy(dst, src) ==
    LET n == IF Len(dst) < Len(src) THEN Len(dst) ELSE Len(src)
    IN [i \in 1..Len(dst) |-> IF i <= n THEN src[i] ELSE dst[i]]

\* The number of bytes copy(dst, src) reports.
copyN(dst, src) == IF Len(dst) < Len(src) THEN Len(dst) ELSE Len(src)

\* b[lo:hi] and b[lo:] as sequences (Go offsets count from 0).
Slice(b, lo, hi) == SubSeq(b, lo + 1, hi)

SliceFrom(b, lo) == SubSeq(b, lo + 1, Len(b))

\* b with b[lo:] overwritten by tail.
WithTail(b, lo, tail) == SubSeq(b, 1, lo) \o tail

\* apply's splicing loop that walks the edits backwards, deleting each
\* range in place: for i := len(edits)-1; i >= 0; i--.
RECURSIVE spliceReverse(_, _, _)
spliceReverse(b, es, i) ==
    IF i = 0
        THEN b
        ELSE LET b1 == WithTail(b, es[i].Pos,
                           copy(SliceFrom(b, es[i].Pos), SliceFrom(b, es[i].End)))
                 b2 == SubSeq(b1, 1, Len(b1) - (es[i].End - es[i].Pos))
             IN spliceReverse(b2, es, i - 1)

\* A forward copy that deletes nothing.
spliceNothing(b, es) == b

\* apply's forward-copy loop: the kept stretches between the edits are
\* copied down to offset n, one after the other.
RECURSIVE spliceForwardFrom(_, _, _, _)
spliceForwardFrom(b, es, i, n) ==
    IF i > Len(es)
        THEN LET src == SliceFrom(b, es[Len(es)].End)
                 b1 == WithTail(b, n, copy(SliceFrom(b, n), src))
             IN SubSeq(b1, 1, n + copyN(SliceFrom(b, n), src))
        ELSE LET src == Slice(b, es[i - 1].End, es[i].Pos)
                 b1 == WithTail(b, n, copy(SliceFrom(b, n), src))
             IN spliceForwardFrom(b1, es, i + 1, n + copyN(SliceFrom(b, n), src))

spliceForward(b, es) == spliceForwardFrom(b, es, 2, es[1].Pos)

\* format.Source as far as the model looks: the canonical form has no blank
\* after a blank and none at the start.
RECURSIVE formatSource(_)
formatSource(b) ==
    IF Len(b) = 0
        THEN <<>>
        ELSE LET init == formatSource(SubSeq(b, 1, Len(b) - 1))
                 last == b[Len(b)]
             IN IF last = 0 /\ (Len(init) = 0 \/ init[Len(init)] = 0)
                    THEN init
                    ELSE Append(init, last)

applyInit ==
    /\ editsIn \in ApplyEditLists
    /\ edits = editsIn
    /\ diskIn \in [1..BufLen -> Bytes]
    /\ disk = diskIn
    /\ buf = <<>>
    /\ apc = "start"
    /\ fatal = ""
    /\ didRead = FALSE
    /\ didWrite = FALSE
    /\ mergeIdle
    /\ mainIdle
    /\ detectIdle
    /\ computeIdle

\* An apply that reads the file and goes on to format.Source whatever the
\* list holds.
applyEmptyReformats ==
    /\ apc = "start"
    /\ Len(edits) = 0
    /\ buf' = disk
    /\ didRead' = TRUE
    /\ apc' = "format"
    /\ UNCHANGED <<edits, editsIn, disk, diskIn, fatal, didWrite>>
    /\ UNCHANGED applyFrame

\* len(edits) == 0: apply returns at once.
applyEmpty ==
    /\ apc = "start"
    /\ Len(edits) = 0
    /\ apc' = "returned"
    /\ UNCHANGED <<edits, editsIn, disk, diskIn, buf, fatal, didRead, didWrite>>
    /\ UNCHANGED applyFrame

\* sort.Sort and the overlap check; log.Fatal("overlap") ends the process.
applyCheck ==
    /\ apc = "start"
    /\ Len(edits) # 0
    /\ \E sorted \in sortEdits(edits) :
        /\ edits' = sorted
        /\ IF overlap(sorted)
            THEN apc' = "fatal" /\ fatal' = "overlap"
            ELSE apc' = "read" /\ fatal' = fatal
    /\ UNCHANGED <<editsIn, disk, diskIn, buf, didRead, didWrite>>
    /\ UNCHANGED applyFrame

\* ioutil.ReadFile: the file's bytes, or an error that is fatal.
applyRead ==
    /\ apc = "read"
    /\ didRead' = TRUE
    /\ \/ buf' = disk /\ apc' = "splice" /\ fatal' = fatal
       \/ buf' = buf /\ apc' = "fatal" /\ fatal' = "read"
    /\ UNCHANGED <<edits, editsIn, disk, diskIn, didWrite>>
    /\ UNCHANGED applyFrame

\* The deleted ranges are cut out of the buffer, by the backward in-place
\* loop or by the forward-copy loop, whichever revision of apply runs.
applySplice ==
    /\ apc = "splice"
    /\ buf' \in {spliceReverse(buf, edits, Len(edits)), spliceForward(buf, edits)}
    /\ apc' = "format"
    /\ UNCHANGED <<edits, editsIn, disk, diskIn, fatal, didRead, didWrite>>
    /\ UNCHANGED applyFrame

\* format.Source: the canonical form, or an error that is fatal.
applyFormat ==
    /\ apc = "format"
    /\ \/ buf' = formatSource(buf) /\ apc' = "write" /\ fatal' = fatal
       \/ buf' = buf /\ apc' = "fatal" /\ fatal' = "format"
    /\ UNCHANGED <<edits, editsIn, disk, diskIn, didRead, didWrite>>
    /\ UNCHANGED applyFrame

\* ioutil.WriteFile: the file holds the buffer, or an error that is fatal.
applyWrite ==
    /\ apc = "write"
    /\ didWrite' = TRUE
    /\ \/ disk' = buf /\ apc' = "returned" /\ fatal' = fatal
       \/ disk' = disk /\ apc' = "fatal" /\ fatal' = "write"
    /\ UNCHANGED <<edits, editsIn, diskIn, buf, didRead>>
    /\ UNCHANGED applyFrame

applyNext ==
    \/ applyEmpty
    \/ applyCheck
    \/ applyRead
    \/ applySplice
    \/ applyFormat
    \/ applyWrite

SpecApply == applyInit /\ [][applyNext]_vars

(***************************************************************************)
(* The driver: main, with the sequential mergeEdits, over maps from file   *)
(* to the set of offsets of its unnecessary conversions.                   *)
(***************************************************************************)
\* The files of the packages named on the command line, in ascending order
\* of their names.
MainFileOrder == <<"a.go", "b.go">>

MainFiles == Range(MainFileOrder)

\* The offsets of the left parentheses of the conversions a file may hold.
MainOffsets == {5 * i + 4 : i \in 0..(MaxEdits - 1)}

\* What computeEdits may return for one configuration: an entry for every
\* file of the initial packages, with the offsets flagged in it.
MainResults == UNION {[fs -> SUBSET MainOffsets] : fs \in SUBSET MainFiles}

\* intsets.Sparse.IntersectionWith
IntersectionWith(e0, e) == e0 \cap e

\* The body of the sequential mergeEdits' loop for one configuration's map.
mergeEditsBody(m0, m1) ==
    [f \in DOMAIN m0 \cup DOMAIN m1 |->
        IF f \in DOMAIN m1
            THEN IF f \in DOMAIN m0 THEN IntersectionWith(m0[f], m1[f]) ELSE m1[f]
            ELSE m0[f]]

\* sort.Strings over the keys of m.
sortStrings(keys) == SelectSeq(MainFileOrder, LAMBDA f : f \in keys)

\* intsets.Sparse.AppendTo(nil): the offsets in ascending order.
RECURSIVE AppendTo(_)
AppendTo(set) ==
    IF set = {}
        THEN <<>>
        ELSE LET max == CHOOSE x \in set : \A y \in set : y <= x
             IN Append(AppendTo(set \ {max}), max)

\* The bytes of a file: five for each conversion it may hold, the last of
\* them the left parenthesis, in lines that start with or hold a tab and
\* with the two bytes of a non-ASCII letter before some parentheses.
TextBlock(name, i) ==
    IF (i + (IF name = MainFileOrder[1] THEN 0 ELSE 1)) % 2 = 0
        THEN <<"x", "\t", "C3", "A9", "(">>
        ELSE <<"\n", "\t", "T", "T", "(">>

RECURSIVE TextUpTo(_, _)
TextUpTo(name, n) ==
    IF n = 0 THEN <<>> ELSE TextUpTo(name, n - 1) \o TextBlock(name, n - 1)

\* ioutil.ReadFile(name)
ReadFile(name) == TextUpTo(name, MaxEdits) \o <<"v", ")", "\n">>

\* The offsets below off at which buf holds a newline.
NewlinesBefore(bs, off) == {i \in 0..(off - 1) : bs[i + 1] = "\n"}

\* file.Position(file.Pos(p)): line and column count from 1, the column in
\* bytes from the start of the line.
Position(bs, p) ==
    LET nl == NewlinesBefore(bs, p)
        start == IF nl = {} THEN 0
                 ELSE (CHOOSE i \in nl : \A j \in nl : j <= i) + 1
    IN  [Line |-> Cardinality(nl) + 1, Column |-> p - start + 1, Offset |-> p]

\* lineForOffset(buf, off) = buf[sol:eol]
lineForOffset(bs, off) ==
    LET nl == NewlinesBefore(bs, off)
        sol == IF nl = {} THEN 0
               ELSE (CHOOSE i \in nl : \A j \in nl : j <= i) + 1
        after == {i \in off..(Len(bs) - 1) : bs[i + 1] = "\n"}
        eol == IF after = {} THEN Len(bs)
               ELSE CHOOSE i \in after : \A j \in after : i <= j
    IN  SubSeq(bs, sol + 1, eol)

\* range string(buf): the runes of buf; C3 A9 is the encoding of one.
RECURSIVE runes(_)
runes(bs) ==
    IF bs = <<>> THEN <<>>
    ELSE IF Head(bs) = "C3" /\ Len(bs) >= 2 /\ bs[2] = "A9"
        THEN <<"U+00E9">> \o runes(Tail(Tail(bs)))
        ELSE <<Head(bs)>> \o runes(Tail(bs))

\* unicode.IsSpace
IsSpace(c) == c \in {"\t", "\n", " "}

\* A rub that writes a space for every byte.
rubBytes(bs) == [i \in 1..Len(bs) |-> " "]

\* rub(buf): white space is kept and every other rune becomes a space.
rub(bs) ==
    LET rs == runes(bs)
    IN  [i \in 1..Len(rs) |-> IF IsSpace(rs[i]) THEN rs[i] ELSE " "]

\* The diagnostics print(name, edits) writes, one per offset in ascending
\* order: the position, the line and the caret under it.
printLines(name, offs) ==
    LET ps == AppendTo(offs)
        bs == ReadFile(name)
        diag(p) ==
            LET pos == Position(bs, p)
                line == lineForOffset(bs, pos.Offset)
            IN  [Filename |-> name, Line |-> pos.Line, Column |-> pos.Column,
                 line |-> line,
                 caret |-> rub(SubSeq(line, 1, pos.Column - 1)) \o <<"^">>]
    IN  IF offs = {} THEN <<>> ELSE [i \in 1..Len(ps) |-> diag(ps[i])]

\* The status of the process when main returns: main never calls os.Exit.
exitOnReturn(found) == 0

\* Where main goes once it has m.
afterEdits == IF flagApply THEN "apply" ELSE "print"

mainInit ==
    /\ flagAll \in BOOLEAN
    /\ flagApply \in BOOLEAN
    /\ mainPc = "start"
    /\ platIdx = 1
    /\ mm = EmptyMap
    /\ tasks = EmptyMap
    /\ written = {}
    /\ out = <<>>
    /\ printIdx = 0
    /\ exitCode = -1
    /\ mergeIdle
    /\ applyIdle
    /\ detectIdle
    /\ computeIdle

\* Without -all: computeEdits for the default configuration.  conf.Load
\* either fails, and log.Fatal ends the process, or the files are analysed.
mainComputeEdits ==
    /\ mainPc = "start"
    /\ ~flagAll
    /\ \/ /\ \E r \in MainResults :
                /\ mm' = r
                /\ tasks' = [f \in DOMAIN r |-> "none"]
          /\ mainPc' = afterEdits
          /\ exitCode' = exitCode
       \/ /\ mainPc' = "exited"
          /\ exitCode' = 1
          /\ UNCHANGED <<mm, tasks>>
    /\ UNCHANGED <<flagAll, flagApply, platIdx, written, out, printIdx>>
    /\ UNCHANGED mainFrame

\* A driver that starts on m after the first configuration while the loop
\* over plats goes on.
mainMergeEditsEarly ==
    /\ mainPc \in {"start", "apply", "print"}
    /\ flagAll
    /\ platIdx <= NumPlats
    /\ \/ /\ \E r \in MainResults :
                /\ mm' = mergeEditsBody(mm, r)
                /\ tasks' = [f \in DOMAIN mm \cup DOMAIN r |->
                                IF f \in DOMAIN tasks THEN tasks[f] ELSE "none"]
          /\ platIdx' = platIdx + 1
          /\ mainPc' = afterEdits
          /\ exitCode' = exitCode
       \/ /\ mainPc' = "exited"
          /\ exitCode' = 1
          /\ UNCHANGED <<mm, tasks, platIdx>>
    /\ UNCHANGED <<flagAll, flagApply, written, out, printIdx>>
    /\ UNCHANGED mainFrame

\* With -all: one iteration of mergeEdits' loop over plats; after the last
\* row mergeEdits returns m to main.
mainMergeEdits ==
    /\ mainPc = "start"
    /\ flagAll
    /\ platIdx <= NumPlats
    /\ \/ /\ \E r \in MainResults :
                /\ mm' = mergeEditsBody(mm, r)
                /\ tasks' = [f \in DOMAIN mm \cup DOMAIN r |-> "none"]
          /\ platIdx' = platIdx + 1
          /\ mainPc' = IF platIdx = NumPlats THEN afterEdits ELSE mainPc
          /\ exitCode' = exitCode
       \/ /\ mainPc' = "exited"
          /\ exitCode' = 1
          /\ UNCHANGED <<mm, tasks, platIdx>>
    /\ UNCHANGED <<flagAll, flagApply, written, out, printIdx>>
    /\ UNCHANGED mainFrame

\* -apply: main starts the goroutine of one more file of m.
mainGo(f) ==
    /\ mainPc = "apply"
    /\ f \in DOMAIN tasks
    /\ tasks[f] = "none"
    /\ tasks' = [tasks EXCEPT ![f] = "running"]
    /\ UNCHANGED <<flagAll, flagApply, mainPc, platIdx, mm, written, out,
                   printIdx, exitCode>>
    /\ UNCHANGED mainFrame

\* The goroutine of file f runs apply(f, e): nothing for an empty set; else
\* the file is parsed, rewritten and written back, or an error is fatal.
mainApply(f) ==
    /\ mainPc = "apply"
    /\ f \in DOMAIN tasks
    /\ tasks[f] = "running"
    /\ \/ /\ mm[f] = {}
          /\ tasks' = [tasks EXCEPT ![f] = "done"]
          /\ UNCHANGED <<written, mainPc, exitCode>>
       \/ /\ mm[f] # {}
          /\ tasks' = [tasks EXCEPT ![f] = "done"]
          /\ written' = written \cup {f}
          /\ UNCHANGED <<mainPc, exitCode>>
       \/ /\ mm[f] # {}
          /\ mainPc' = "exited"
          /\ exitCode' = 1
          /\ UNCHANGED <<tasks, written>>
    /\ UNCHANGED <<flagAll, flagApply, platIdx, mm, out, printIdx>>
    /\ UNCHANGED mainFrame

\* A main that returns without wg.Wait.
mainWaitEarly ==
    /\ mainPc = "apply"
    /\ mainPc' = "exited"
    /\ exitCode' = exitOnReturn(\E f \in DOMAIN mm : mm[f] # {})
    /\ UNCHANGED <<flagAll, flagApply, platIdx, mm, tasks, written, out, printIdx>>
    /\ UNCHANGED mainFrame

\* wg.Wait returns when every goroutine is done, and main returns.
mainWait ==
    /\ mainPc = "apply"
    /\ \A f \in DOMAIN tasks : tasks[f] = "done"
    /\ mainPc' = "exited"
    /\ exitCode' = exitOnReturn(\E f \in DOMAIN mm : mm[f] # {})
    /\ UNCHANGED <<flagAll, flagApply, platIdx, mm, tasks, written, out, printIdx>>
    /\ UNCHANGED mainFrame

\* Report mode: print(f, m[f]) for the next file in ascending order of
\* name; reading or parsing the file may fail, which is fatal.
mainPrint ==
    /\ mainPc = "print"
    /\ printIdx < Len(sortStrings(DOMAIN mm))
    /\ LET f == sortStrings(DOMAIN mm)[printIdx + 1] IN
        \/ /\ out' = out \o printLines(f, mm[f])
           /\ printIdx' = printIdx + 1
           /\ UNCHANGED <<mainPc, exitCode>>
        \/ /\ mm[f] # {}
           /\ mainPc' = "exited"
           /\ exitCode' = 1
           /\ UNCHANGED <<out, printIdx>>
    /\ UNCHANGED <<flagAll, flagApply, platIdx, mm, tasks, written>>
    /\ UNCHANGED mainFrame

\* Report mode: every file is printed and main returns.
mainReturn ==
    /\ mainPc = "print"
    /\ printIdx = Len(sortStrings(DOMAIN mm))
    /\ mainPc' = "exited"
    /\ exitCode' = exitOnReturn(\E f \in DOMAIN mm : mm[f] # {})
    /\ UNCHANGED <<flagAll, flagApply, platIdx, mm, tasks, written, out, printIdx>>
    /\ UNCHANGED mainFrame

mainNext ==
    \/ mainComputeEdits
    \/ mainMergeEdits
    \/ \E f \in MainFiles : mainGo(f)
    \/ \E f \in MainFiles : mainApply(f)
    \/ mainWait
    \/ mainPrint
    \/ mainReturn

SpecMain == mainInit /\ [][mainNext]_vars

(***************************************************************************)
(* The detector: computeEdits' walk of one file, visitor.Visit,            *)
(* visitor.unconvert, keepParen, isUntypedValue and hasUntypedValue.       *)
(*                                                                         *)
(* A file is the syntax tree the loader hands to ast.Walk together with    *)
(* the types the type checker recorded for its expressions.  The source    *)
(* text is laid out one byte per token, so that a node's offsets are the   *)
(* indices of its tokens.                                                  *)
(***************************************************************************)
\* go/ast nodes.
Ident(name) == [kind |-> "Ident", Name |-> name]

BasicLit(v) == [kind |-> "BasicLit", Value |-> v]

BinaryExpr(x, op, y) == [kind |-> "BinaryExpr", X |-> x, Op |-> op, Y |-> y]

UnaryExpr(op, x) == [kind |-> "UnaryExpr", Op |-> op, X |-> x]

ParenExpr(x) == [kind |-> "ParenExpr", X |-> x]

SelectorExpr(x, sel) == [kind |-> "SelectorExpr", X |-> x, Sel |-> sel]

\* Ellipsis is whether call.Ellipsis is a valid position.
CallExpr(fun, args, ell) ==
    [kind |-> "CallExpr", Fun |-> fun, Args |-> args, Ellipsis |-> ell]

ArrayType(len, elt) == [kind |-> "ArrayType", Len |-> len, Elt |-> elt]

ValueSpec(names, values) ==
    [kind |-> "ValueSpec", Names |-> names, Values |-> values]

GenDecl(specs) == [kind |-> "GenDecl", Specs |-> specs]

File(name, decls) == [kind |-> "File", Name |-> name, Decls |-> decls]

\* The children of a node in the order ast.Walk walks them.
Children(n) ==
    CASE n.kind = "File" -> <<n.Name>> \o n.Decls
      [] n.kind = "GenDecl" -> n.Specs
      [] n.kind = "ValueSpec" -> n.Names \o n.Values
      [] n.kind = "BinaryExpr" -> <<n.X, n.Y>>
      [] n.kind \in {"UnaryExpr", "ParenExpr"} -> <<n.X>>
      [] n.kind = "SelectorExpr" -> <<n.X, n.Sel>>
      [] n.kind = "CallExpr" -> <<n.Fun>> \o n.Args
      [] n.kind = "ArrayType" -> <<n.Len, n.Elt>>
      [] OTHER -> <<>>

\* A node is named by its path from the root: the indices of the children
\* taken.  NodeAt is the node a path names.
RECURSIVE NodeAt(_, _)
NodeAt(n, path) ==
    IF path = <<>> THEN n ELSE NodeAt(Children(n)[Head(path)], Tail(path))

RECURSIVE Paths(_)
Paths(n) ==
    {<<>>} \cup
    UNION {{<<k>> \o p : p \in Paths(Children(n)[k])} : k \in 1..Len(Children(n))}

Up(path) == SubSeq(path, 1, Len(path) - 1)

Last(path) == path[Len(path)]

(***************************************************************************)
(* Type information: what pkg.Types and pkg.Info.Uses hold after           *)
(* conf.Load.  An entry is the mode of the expression (a type, a value, a  *)
(* built-in; "invalid" stands for no entry), its type, and whether it has  *)
(* a constant value.                                                       *)
(***************************************************************************)
TypeAndValue(mode, typ, const) == [mode |-> mode, typ |-> typ, const |-> const]

Invalid == TypeAndValue("invalid", "", FALSE)

Value(typ, const) == TypeAndValue("value", typ, const)

\* The objects the identifiers of a file resolve to:
\*   var v int64; var x float64; var z complex128; type F func(F) int64;
\*   var fn F; var a [8]int64; var s []int64; func g0() int64;
\*   func h(...int64) int64; const c = 4;
\* and the predeclared true, nil, int64, float64, bool, real, complex.
Universe ==
    [v |-> Value("int64", FALSE),
     x |-> Value("float64", FALSE),
     z |-> Value("complex128", FALSE),
     fn |-> Value("F", FALSE),
     a |-> Value("[8]int64", FALSE),
     s |-> Value("[]int64", FALSE),
     g0 |-> Value("func() int64", FALSE),
     h |-> Value("func(...int64) int64", FALSE),
     c |-> Value("untyped", TRUE),
     true |-> Value("untypedbool", TRUE),
     nil |-> Value("untypednil", FALSE),
     int64 |-> TypeAndValue("type", "int64", FALSE),
     float64 |-> TypeAndValue("type", "float64", FALSE),
     bool |-> TypeAndValue("type", "bool", FALSE),
     F |-> TypeAndValue("type", "F", FALSE),
     real |-> TypeAndValue("builtin", "real", FALSE),
     complex |-> TypeAndValue("builtin", "complex", FALSE)]

IsUntyped(t) == t \in {"untyped", "untypedbool", "untypednil"}

IsNumeric(t) == t \in {"int64", "float64", "complex128", "uintptr", "untyped"}

IsInteger(t) == t \in {"int64", "uintptr", "untyped"}

IsBoolean(t) == t \in {"bool", "untypedbool"}

IsConstType(t) == IsNumeric(t) \/ IsBoolean(t)

\* The type of a binary operation on operands of types tx and ty, "" when
\* the operands do not match.
Unify(tx, ty) ==
    IF tx = ty THEN tx
    ELSE IF tx = "untyped" /\ IsNumeric(ty) THEN ty
    ELSE IF ty = "untyped" /\ IsNumeric(tx) THEN tx
    ELSE IF tx = "untypedbool" /\ ty = "bool" THEN ty
    ELSE IF ty = "untypedbool" /\ tx = "bool" THEN tx
    ELSE ""

Comparable(tx, ty) ==
    \/ Unify(tx, ty) # "" /\ (IsNumeric(tx) \/ IsBoolean(tx) \/ tx = "[8]int64")
    \/ {tx, ty} = {"F", "untypednil"}

ConvertibleTo(tx, T) ==
    \/ tx = T
    \/ /\ IsNumeric(tx) /\ IsNumeric(T)
       /\ T = "complex128" => tx \in {"untyped", "complex128"}
       /\ tx = "complex128" => T = "complex128"
    \/ tx = "untypedbool" /\ T = "bool"
    \/ tx = "untypednil" /\ T = "F"

AssignableTo(tx, T) ==
    \/ tx = T
    \/ tx = "untyped" /\ IsNumeric(T)
    \/ tx = "untypedbool" /\ T = "bool"
    \/ tx = "untypednil" /\ T = "F"

binary(op, x, y) ==
    IF x.mode # "value" \/ y.mode # "value" THEN Invalid
    ELSE CASE op \in {"+", "*"} ->
                IF IsNumeric(x.typ) /\ IsNumeric(y.typ) /\ Unify(x.typ, y.typ) # ""
                    THEN Value(Unify(x.typ, y.typ), x.const /\ y.const)
                    ELSE Invalid
           [] op = "<<" ->
                IF IsInteger(x.typ) /\ IsInteger(y.typ) /\ (x.typ = "untyped" => y.const)
                    THEN Value(x.typ, x.const /\ y.const)
                    ELSE Invalid
           [] op = "==" ->
                IF Comparable(x.typ, y.typ)
                    THEN Value("untypedbool", x.const /\ y.const)
                    ELSE Invalid
           [] op = "||" ->
                IF IsBoolean(x.typ) /\ IsBoolean(y.typ)
                    THEN Value(Unify(x.typ, y.typ), x.const /\ y.const)
                    ELSE Invalid
           [] OTHER -> Invalid

unary(op, x) ==
    IF x.mode # "value" THEN Invalid
    ELSE IF op = "-" /\ IsNumeric(x.typ) THEN x
    ELSE IF op = "!" /\ IsBoolean(x.typ) THEN x
    ELSE Invalid

\* T(x): one operand, no ellipsis, convertible; a constant when x is one and
\* T is a type constants can have.
conversion(T, args, ell) ==
    IF Len(args) = 1 /\ ~ell /\ args[1].mode = "value" /\ ConvertibleTo(args[1].typ, T)
        THEN Value(T, args[1].const /\ IsConstType(T))
        ELSE Invalid

builtin(id, args, ell) ==
    IF ell \/ \E i \in 1..Len(args) : args[i].mode # "value" THEN Invalid
    ELSE CASE id = "real" ->
                IF Len(args) # 1 THEN Invalid
                ELSE IF args[1].typ = "untyped" THEN Value("untyped", TRUE)
                ELSE IF args[1].typ = "complex128" THEN Value("float64", args[1].const)
                ELSE Invalid
           [] id = "complex" ->
                IF Len(args) # 2 THEN Invalid
                ELSE IF args[1].typ = "untyped" /\ args[2].typ = "untyped"
                    THEN Value("untyped", TRUE)
                ELSE IF Unify(args[1].typ, args[2].typ) = "float64"
                    THEN Value("complex128", args[1].const /\ args[2].const)
                ELSE Invalid
           [] id = "Sizeof" ->
                IF Len(args) = 1 /\ args[1].typ # "untypednil"
                    THEN Value("uintptr", TRUE)
                    ELSE Invalid
           [] OTHER -> Invalid

\* A call of a value of function type sig.
arguments(sig, args, ell) ==
    IF \E i \in 1..Len(args) : args[i].mode # "value" THEN Invalid
    ELSE CASE sig = "F" ->
                IF Len(args) = 1 /\ ~ell /\ AssignableTo(args[1].typ, "F")
                    THEN Value("int64", FALSE)
                    ELSE Invalid
           [] sig = "func() int64" ->
                IF Len(args) = 0 /\ ~ell THEN Value("int64", FALSE) ELSE Invalid
           [] sig = "func(...int64) int64" ->
                IF ell
                    THEN IF Len(args) = 1 /\ args[1].typ = "[]int64"
                            THEN Value("int64", FALSE)
                            ELSE Invalid
                    ELSE IF \A i \in 1..Len(args) : AssignableTo(args[i].typ, "int64")
                            THEN Value("int64", FALSE)
                            ELSE Invalid
           [] OTHER -> Invalid

\* The type checker on one expression.
RECURSIVE exprInternal(_)
exprInternal(e) ==
    CASE e.kind = "Ident" ->
            IF e.Name \in DOMAIN Universe THEN Universe[e.Name] ELSE Invalid
      [] e.kind = "BasicLit" -> Value("untyped", TRUE)
      [] e.kind = "ParenExpr" -> exprInternal(e.X)
      [] e.kind = "UnaryExpr" -> unary(e.Op, exprInternal(e.X))
      [] e.kind = "BinaryExpr" -> binary(e.Op, exprInternal(e.X), exprInternal(e.Y))
      [] e.kind = "SelectorExpr" ->
            IF e.X = Ident("unsafe") /\ e.Sel = Ident("Sizeof")
                THEN TypeAndValue("builtin", "Sizeof", FALSE)
                ELSE Invalid
      [] e.kind = "ArrayType" ->
            IF /\ exprInternal(e.Len) = Value("uintptr", TRUE)
               /\ exprInternal(e.Elt) = TypeAndValue("type", "int64", FALSE)
                THEN TypeAndValue("type", "[8]int64", FALSE)
                ELSE Invalid
      [] e.kind = "CallExpr" ->
            LET f == exprInternal(e.Fun)
                args == [i \in 1..Len(e.Args) |-> exprInternal(e.Args[i])]
            IN  CASE f.mode = "type" -> conversion(f.typ, args, e.Ellipsis)
                  [] f.mode = "builtin" -> builtin(f.typ, args, e.Ellipsis)
                  [] f.mode = "value" -> arguments(f.typ, args, e.Ellipsis)
                  [] OTHER -> Invalid
      [] OTHER -> Invalid

\* pkg.Types[e].
Types(e) == exprInternal(e)

\* pkg.Types[e] for the operand e of a conversion to T: the type checker
\* records an untyped operand with the type it is converted to (nil keeps
\* its untyped nil type).
TypesAs(e, T) ==
    LET tv == exprInternal(e)
    IN  IF tv.mode = "value" /\ tv.typ \in {"untyped", "untypedbool"}
            THEN [tv EXCEPT !.typ = T]
            ELSE tv

\* The ok of a lookup in pkg.Types.
Present(tv) == tv.mode # "invalid"

\* v.pkg.Types[e] for the expression e at path p of the file being walked:
\* the zero TypeAndValue when the table has no entry for it.
pkgTypes(p, e) == IF p \in v_missing THEN Invalid ELSE Types(e)

pkgTypesAs(p, e, T) == IF p \in v_missing THEN Invalid ELSE TypesAs(e, T)

anyEntryIsType(tv) == TRUE

\* TypeAndValue.IsType
IsType(tv) == tv.mode = "type"

identicalOrNil(t1, t2) == t1 = t2 \/ t2 = ""

\* types.Identical
Identical(t1, t2) == t1 = t2

(***************************************************************************)
(* Syntax: operator precedence, the trees the parser builds, the token     *)
(* layout of a node, and go/printer's rendering of a tree.                 *)
(***************************************************************************)
\* token.Token.Precedence, and the precedences the printer passes down.
Precedence(op) ==
    CASE op = "||" -> 1 [] op = "==" -> 3 [] op = "+" -> 4 [] op \in {"*", "<<"} -> 5

LowestPrec == 0

UnaryPrec == 6

HighestPrec == 7

IsPrimary(e) ==
    e.kind \in {"Ident", "BasicLit", "ParenExpr", "SelectorExpr", "CallExpr", "ArrayType"}

\* Whether the parser can have built node e from its children: operands
\* that bind less tightly than their operator stand in a ParenExpr.
parsesAs(e) ==
    CASE e.kind = "BinaryExpr" ->
            /\ e.X.kind = "BinaryExpr" => Precedence(e.X.Op) >= Precedence(e.Op)
            /\ e.Y.kind = "BinaryExpr" => Precedence(e.Y.Op) > Precedence(e.Op)
      [] e.kind = "UnaryExpr" -> e.X.kind # "BinaryExpr"
      [] e.kind = "CallExpr" -> IsPrimary(e.Fun)
      [] e.kind = "SelectorExpr" -> IsPrimary(e.X)
      [] OTHER -> TRUE

\* The layout of a node: its own tokens and its children (by index), each
\* child with the precedence the printer prints it at.
Tok(s) == <<"tok", s>>

Sub(k, prec) == <<"sub", k, prec>>

RECURSIVE exprList(_, _, _)
exprList(first, count, i) ==
    IF i > count THEN <<>>
    ELSE (IF i > 1 THEN <<Tok(",")>> ELSE <<>>)
            \o <<Sub(first + i - 1, LowestPrec)>> \o exprList(first, count, i + 1)

Layout(n) ==
    CASE n.kind = "Ident" -> <<Tok(n.Name)>>
      [] n.kind = "BasicLit" -> <<Tok(n.Value)>>
      [] n.kind = "ParenExpr" -> <<Tok("("), Sub(1, LowestPrec), Tok(")")>>
      [] n.kind = "UnaryExpr" -> <<Tok(n.Op), Sub(1, UnaryPrec)>>
      [] n.kind = "BinaryExpr" ->
            <<Sub(1, Precedence(n.Op)), Tok(n.Op), Sub(2, Precedence(n.Op) + 1)>>
      [] n.kind = "SelectorExpr" -> <<Sub(1, HighestPrec), Tok("."), Sub(2, LowestPrec)>>
      [] n.kind = "CallExpr" ->
            <<Sub(1, HighestPrec), Tok("(")>> \o exprList(2, Len(n.Args), 1)
                \o (IF n.Ellipsis THEN <<Tok("...")>> ELSE <<>>) \o <<Tok(")")>>
      [] n.kind = "ArrayType" ->
            <<Tok("["), Sub(1, LowestPrec), Tok("]"), Sub(2, LowestPrec)>>
      [] n.kind = "ValueSpec" ->
            exprList(1, Len(n.Names), 1) \o <<Tok("=")>>
                \o exprList(Len(n.Names) + 1, Len(n.Values), 1)
      [] n.kind = "GenDecl" -> <<Tok("var"), Sub(1, LowestPrec)>>
      [] n.kind = "File" ->
            <<Tok("package")>> \o [k \in 1..Len(Children(n)) |-> Sub(k, LowestPrec)]

RECURSIVE Flatten(_)
Flatten(ss) == IF Len(ss) = 0 THEN <<>> ELSE Head(ss) \o Flatten(Tail(ss))

\* The source text the parser read node n from.
RECURSIVE Source(_)
Source(n) ==
    LET l == Layout(n)
    IN  Flatten([i \in 1..Len(l) |->
            IF l[i][1] = "tok" THEN <<l[i][2]>> ELSE Source(Children(n)[l[i][2]])])

\* The offset of child k of n from the start of n; i runs over the layout.
RECURSIVE ChildOffset(_, _, _)
ChildOffset(n, k, i) ==
    LET it == Layout(n)[i]
    IN  IF it[1] = "sub" /\ it[2] = k THEN 0
        ELSE (IF it[1] = "tok" THEN 1 ELSE Len(Source(Children(n)[it[2]])))
                + ChildOffset(n, k, i + 1)

\* v.file.Offset(n.Pos()) and v.file.Offset(n.End()) of the node at path.
RECURSIVE PosOf(_, _)
PosOf(root, path) ==
    IF path = <<>> THEN 0
    ELSE PosOf(root, Up(path)) + ChildOffset(NodeAt(root, Up(path)), Last(path), 1)

EndOf(root, path) == PosOf(root, path) + Len(Source(NodeAt(root, path)))

\* v.file.Offset(call.Lparen) and v.file.Offset(call.Rparen).
LparenOf(root, path) == PosOf(root, path) + Len(Source(NodeAt(root, path).Fun))

RparenOf(root, path) == EndOf(root, path) - 1

\* The printer parenthesizes an operand that binds less tightly than the
\* position it is printed in.
needsParens(n, prec1) ==
    \/ n.kind = "BinaryExpr" /\ Precedence(n.Op) < prec1
    \/ n.kind = "UnaryExpr" /\ UnaryPrec < prec1

\* printer.Fprint of node n printed at precedence prec1, as tokens.  A
\* ParenExpr around a ParenExpr prints one pair of parentheses.
RECURSIVE Fprint(_, _)
Fprint(n, prec1) ==
    IF needsParens(n, prec1) THEN <<"(">> \o Fprint(n, LowestPrec) \o <<")">>
    ELSE IF n.kind = "ParenExpr" /\ n.X.kind = "ParenExpr" THEN Fprint(n.X, LowestPrec)
    ELSE LET l == Layout(n)
         IN  Flatten([i \in 1..Len(l) |->
                 IF l[i][1] = "tok" THEN <<l[i][2]>>
                 ELSE Fprint(Children(n)[l[i][2]], l[i][3])])

\* *bp = c, where bp = findExprField(a, b) and b is child k of a.
withChild(n, k, c) ==
    CASE n.kind = "File" ->
            IF k = 1 THEN [n EXCEPT !.Name = c] ELSE [n EXCEPT !.Decls[k - 1] = c]
      [] n.kind = "GenDecl" -> [n EXCEPT !.Specs[k] = c]
      [] n.kind = "ValueSpec" ->
            IF k <= Len(n.Names)
                THEN [n EXCEPT !.Names[k] = c]
                ELSE [n EXCEPT !.Values[k - Len(n.Names)] = c]
      [] n.kind = "BinaryExpr" -> IF k = 1 THEN [n EXCEPT !.X = c] ELSE [n EXCEPT !.Y = c]
      [] n.kind \in {"UnaryExpr", "ParenExpr"} -> [n EXCEPT !.X = c]
      [] n.kind = "SelectorExpr" ->
            IF k = 1 THEN [n EXCEPT !.X = c] ELSE [n EXCEPT !.Sel = c]
      [] n.kind = "CallExpr" ->
            IF k = 1 THEN [n EXCEPT !.Fun = c] ELSE [n EXCEPT !.Args[k - 1] = c]
      [] n.kind = "ArrayType" ->
            IF k = 1 THEN [n EXCEPT !.Len = c] ELSE [n EXCEPT !.Elt = c]

\* An oracle of the opposite sense: whether the two prints differ.
\* The tree root with the node at path replaced by e.
RECURSIVE ReplaceAt(_, _, _)
ReplaceAt(n, path, e) ==
    IF path = <<>> THEN e
    ELSE withChild(n, Head(path), ReplaceAt(Children(n)[Head(path)], Tail(path), e))

\* findExprField(a, b) with b the child k of a: the slot of a that points to
\* b, among the fields of a of type ast.Expr or []ast.Expr; 0 stands for
\* log.Fatal("Failed to find b in a").
findExprField(a, k) ==
    CASE a.kind = "ValueSpec" -> IF k > Len(a.Names) THEN k ELSE 0
      [] a.kind \in {"BinaryExpr", "UnaryExpr", "ParenExpr", "SelectorExpr",
                     "CallExpr", "ArrayType"} -> k
      [] OTHER -> 0

\* A keepParen that returns without *bp = b.
keepParenNoRestore(a, k, c) == withChild(a, findExprField(a, k), ParenExpr(c))

\* The node a when keepParen(a, b, c) returns, b being the child k of a:
\* *bp = c before the first printer.Fprint, *bp = &ast.ParenExpr{X: c}
\* before the second, *bp = b after it.
keepParenLeaves(a, k, c) ==
    LET b == Children(a)[k]
        bp == findExprField(a, k)
        a1 == withChild(a, bp, c)
        a2 == withChild(a1, bp, ParenExpr(c))
    IN  withChild(a2, bp, b)

printsDiffer(a, k, c) ==
    Fprint(withChild(a, k, c), LowestPrec)
        # Fprint(withChild(a, k, ParenExpr(c)), LowestPrec)

\* keepParen(a, b, c) with b the child k of a: whether a prints the same
\* with c and with (c) in the place of b.
keepParen(a, k, c) ==
    Fprint(withChild(a, k, c), LowestPrec)
        = Fprint(withChild(a, k, ParenExpr(c)), LowestPrec)

(***************************************************************************)
(* The classifiers of untyped values.                                      *)
(***************************************************************************)
RECURSIVE unparen(_)
unparen(n) == IF n.kind = "ParenExpr" THEN unparen(n.X) ELSE n

\* The name of the built-in the (parenthesized) identifier n denotes, ""
\* when it denotes none.
asBuiltin(n) ==
    LET id == unparen(n)
    IN  IF /\ id.kind = "Ident"
           /\ id.Name \in DOMAIN Universe
           /\ Universe[id.Name].mode = "builtin"
            THEN id.Name
            ELSE ""

neverUntyped(n) == FALSE

\* A classifier that knows literals only.
untypedIfLiteral(n) == n.kind = "BasicLit"

RECURSIVE isUntypedValue(_)
isUntypedValue(n) ==
    CASE n.kind = "BinaryExpr" ->
            (CASE n.Op = "<<" -> isUntypedValue(n.X)
               [] n.Op = "==" -> TRUE
               [] n.Op \in {"+", "*", "||"} -> isUntypedValue(n.X) /\ isUntypedValue(n.Y)
               [] OTHER -> FALSE)
      [] n.kind = "UnaryExpr" ->
            IF n.Op \in {"-", "!"} THEN isUntypedValue(n.X) ELSE FALSE
      [] n.kind = "BasicLit" -> TRUE
      [] n.kind = "ParenExpr" -> isUntypedValue(n.X)
      [] n.kind = "SelectorExpr" -> isUntypedValue(n.Sel)
      [] n.kind = "Ident" ->
            /\ n.Name \in DOMAIN Universe
            /\ \/ n.Name = "nil"
               \/ Universe[n.Name].mode = "value" /\ IsUntyped(Universe[n.Name].typ)
      [] n.kind = "CallExpr" ->
            (CASE asBuiltin(n.Fun) = "real" -> isUntypedValue(n.Args[1])
               [] asBuiltin(n.Fun) = "complex" ->
                    isUntypedValue(n.Args[1]) /\ isUntypedValue(n.Args[2])
               [] OTHER -> FALSE)
      [] OTHER -> FALSE

\* uvVisitor over the subtree of n: found at a shift, a comparison or nil.
RECURSIVE hasUntypedValue(_)
hasUntypedValue(n) ==
    \/ n.kind = "BinaryExpr" /\ n.Op \in {"<<", "=="}
    \/ n.kind = "Ident" /\ n.Name = "nil"
    \/ \E k \in 1..Len(Children(n)) : hasUntypedValue(Children(n)[k])

(***************************************************************************)
(* visitor.unconvert, in its two revisions: the one that appends Edits     *)
(* and the one that inserts the offset of the opening parenthesis into an  *)
(* intsets.Sparse.                                                         *)
(***************************************************************************)
\* A removal that takes one byte more.
removeOneMore(pos, end) == Edit(pos, end + 1)

\* v.remove(pos, end): the Edit appended.
remove(pos, end) == Edit(pos, end)

\* The Edits unconvert appends for the call at path; stack is v.nodes.
unconvert(root, path, stack) ==
    LET call == NodeAt(root, path)
        ft == pkgTypes(Append(path, 1), call.Fun)
        at == pkgTypesAs(Append(path, 2), call.Args[1], ft.typ)
        outer == stack[Len(stack) - 1]
    IN  IF Len(call.Args) # 1 \/ call.Ellipsis THEN <<>>
        ELSE IF ~Present(ft) THEN <<>>
        ELSE IF ~IsType(ft) THEN <<>>
        ELSE IF ~Identical(ft.typ, at.typ) THEN <<>>
        ELSE IF at.const \/ hasUntypedValue(call.Args[1]) THEN <<>>
        ELSE IF keepParen(NodeAt(root, outer), Last(path), call.Args[1])
            THEN <<remove(PosOf(root, path), LparenOf(root, path))>>
            ELSE <<remove(PosOf(root, path), LparenOf(root, path) + 1),
                   remove(RparenOf(root, path), RparenOf(root, path) + 1)>>

\* The file when unconvert returns: keepParen is the one call that
\* assigns to the tree, and unconvert reaches it exactly when it goes on to
\* v.remove.
afterUnconvert(root, path, stack) ==
    LET call == NodeAt(root, path)
        outer == stack[Len(stack) - 1]
    IN  IF unconvert(root, path, stack) = <<>> THEN root
        ELSE ReplaceAt(root, outer,
                       keepParenLeaves(NodeAt(root, outer), Last(path), call.Args[1]))

\* The offsets unconvert inserts for the call at path.
unconvertSparse(root, path) ==
    LET call == NodeAt(root, path)
        ft == pkgTypes(Append(path, 1), call.Fun)
        at == pkgTypesAs(Append(path, 2), call.Args[1], ft.typ)
    IN  IF Len(call.Args) # 1 \/ call.Ellipsis THEN {}
        ELSE IF ~Present(ft) THEN {}
        ELSE IF ~IsType(ft) THEN {}
        ELSE IF isUntypedValue(call.Args[1]) THEN {}
        ELSE IF ~Identical(ft.typ, at.typ) THEN {}
        ELSE {LparenOf(root, path)}

(***************************************************************************)
(* The files of the detector model: var _ = e, for every well-typed        *)
(* expression e of at most MaxExprSize nodes over the operators and        *)
(* identifiers below, and for the expressions of the regression tests.     *)
(***************************************************************************)
Leaves ==
    {Ident("v"), Ident("x"), Ident("c"), Ident("nil"), Ident("fn"), BasicLit("0")}

Callees ==
    {Ident("int64"), Ident("float64"), Ident("bool"), Ident("F"), Ident("fn"),
     Ident("real"), Ident("complex")}

UnaryOps == {"-", "!"}

BinaryOps == {"+", "*", "<<", "==", "||"}

\* The expressions of es the parser can build and the type checker accepts
\* as values.
Checked(es) == {e \in es : parsesAs(e) /\ exprInternal(e).mode = "value"}

\* The value expressions of exactly n nodes.
RECURSIVE Exprs(_)
Exprs(n) ==
    IF n = 1 THEN Leaves
    ELSE Checked(
        {UnaryExpr(op, e) : op \in UnaryOps, e \in Exprs(n - 1)}
        \cup {ParenExpr(e) : e \in Exprs(n - 1)}
        \cup UNION {{BinaryExpr(e1, op, e2) :
                        op \in BinaryOps, e1 \in Exprs(i), e2 \in Exprs(n - 1 - i)} :
                    i \in 1..(n - 2)}
        \cup (IF n >= 3
                THEN {CallExpr(f, <<e>>, FALSE) : f \in Callees, e \in Exprs(n - 2)}
                ELSE {})
        \cup (IF n >= 4
                THEN {CallExpr(ParenExpr(f), <<e>>, FALSE) : f \in Callees, e \in Exprs(n - 3)}
                ELSE {})
        \cup (IF n >= 4
                THEN UNION {{CallExpr(f, <<e1, e2>>, FALSE) :
                                f \in Callees, e1 \in Exprs(i), e2 \in Exprs(n - 2 - i)} :
                            i \in 1..(n - 3)}
                ELSE {}))

RECURSIVE ExprsUpTo(_)
ExprsUpTo(n) == IF n = 0 THEN {} ELSE Exprs(n) \cup ExprsUpTo(n - 1)

Conv(T, e) == CallExpr(Ident(T), <<e>>, FALSE)

Sizeof(e) ==
    CallExpr(SelectorExpr(Ident("unsafe"), Ident("Sizeof")), <<e>>, FALSE)

\* x + float64(x*x) and float64(x + x); F(F(nil)), fn(F(nil)) and fn(F(fn));
\* int64(int64(v)); int64((real)(0)), float64(complex(0, 0)) and
\* (bool)(true || true); [unsafe.Sizeof(int64(v))]int64(a), a conversion
\* inside the type of a conversion; int64(0) + int64(v) and
\* float64(x + x) * float64(x); h(s...) and g0().
Corpus ==
    { BinaryExpr(Ident("x"), "+", Conv("float64", BinaryExpr(Ident("x"), "*", Ident("x")))),
      Conv("float64", BinaryExpr(Ident("x"), "+", Ident("x"))),
      Conv("F", Conv("F", Ident("nil"))),
      CallExpr(Ident("fn"), <<Conv("F", Ident("nil"))>>, FALSE),
      CallExpr(Ident("fn"), <<Conv("F", Ident("fn"))>>, FALSE),
      Conv("int64", Conv("int64", Ident("v"))),
      Conv("int64", CallExpr(ParenExpr(Ident("real")), <<BasicLit("0")>>, FALSE)),
      Conv("float64", CallExpr(Ident("complex"), <<BasicLit("0"), BasicLit("0")>>, FALSE)),
      CallExpr(ParenExpr(Ident("bool")),
               <<BinaryExpr(Ident("true"), "||", Ident("true"))>>, FALSE),
      CallExpr(ArrayType(Sizeof(Conv("int64", Ident("v"))), Ident("int64")),
               <<Ident("a")>>, FALSE),
      BinaryExpr(Conv("int64", BasicLit("0")), "+", Conv("int64", Ident("v"))),
      BinaryExpr(Conv("float64", BinaryExpr(Ident("x"), "+", Ident("x"))),
                 "*", Conv("float64", Ident("x"))),
      CallExpr(Ident("h"), <<Ident("s")>>, TRUE),
      CallExpr(Ident("g0"), <<>>, FALSE) }

\* The initializers a package-level var _ = e can have.
Inputs ==
    {e \in ExprsUpTo(MaxExprSize) \cup Corpus :
        exprInternal(e).mode = "value" /\ exprInternal(e).typ # "untypednil"}

FileOf(e) == File(Ident("p"), <<GenDecl(<<ValueSpec(<<Ident("_")>>, <<e>>)>>)>>)

(***************************************************************************)
(* parser.ParseFile on the token text of a file, as far as the files of    *)
(* the model go: package p; var _ = expression.                            *)
(***************************************************************************)
Literals == {"0"}

RECURSIVE parseBinaryExpr(_, _, _)
RECURSIVE binaryLoop(_, _, _, _)
RECURSIVE parseUnaryExpr(_, _)
RECURSIVE parseOperand(_, _)
RECURSIVE primaryLoop(_, _, _)
RECURSIVE parseArgs(_, _, _)

\* An operand at ts[i]: a parenthesized expression, an array type, a
\* literal or an identifier.  The result is the node and the index of the
\* token after it.
parseOperand(ts, i) ==
    CASE ts[i] = "(" ->
            LET r == parseBinaryExpr(ts, i + 1, LowestPrec + 1)
            IN  [node |-> ParenExpr(r.node), next |-> r.next + 1]
      [] ts[i] = "[" ->
            LET l == parseBinaryExpr(ts, i + 1, LowestPrec + 1)
                e == parseOperand(ts, l.next + 1)
            IN  [node |-> ArrayType(l.node, e.node), next |-> e.next]
      [] OTHER ->
            [node |-> IF ts[i] \in Literals THEN BasicLit(ts[i]) ELSE Ident(ts[i]),
             next |-> i + 1]

\* The arguments of a call up to its closing parenthesis.
parseArgs(ts, i, acc) ==
    CASE ts[i] = ")" -> [args |-> acc, ell |-> FALSE, next |-> i + 1]
      [] ts[i] = "..." -> [args |-> acc, ell |-> TRUE, next |-> i + 2]
      [] ts[i] = "," -> parseArgs(ts, i + 1, acc)
      [] OTHER ->
            LET r == parseBinaryExpr(ts, i, LowestPrec + 1)
            IN  parseArgs(ts, r.next, Append(acc, r.node))

\* The selectors and calls that follow the operand x.
primaryLoop(ts, x, i) ==
    IF i > Len(ts) THEN [node |-> x, next |-> i]
    ELSE CASE ts[i] = "." ->
                primaryLoop(ts, SelectorExpr(x, Ident(ts[i + 1])), i + 2)
           [] ts[i] = "(" ->
                LET r == parseArgs(ts, i + 1, <<>>)
                IN  primaryLoop(ts, CallExpr(x, r.args, r.ell), r.next)
           [] OTHER -> [node |-> x, next |-> i]

parseUnaryExpr(ts, i) ==
    IF ts[i] \in UnaryOps
        THEN LET r == parseUnaryExpr(ts, i + 1)
             IN  [node |-> UnaryExpr(ts[i], r.node), next |-> r.next]
        ELSE LET o == parseOperand(ts, i)
             IN  primaryLoop(ts, o.node, o.next)

\* The binary operators of precedence prec1 or more that follow x.
binaryLoop(ts, x, i, prec1) ==
    IF i > Len(ts) \/ ts[i] \notin BinaryOps THEN [node |-> x, next |-> i]
    ELSE IF Precedence(ts[i]) < prec1 THEN [node |-> x, next |-> i]
    ELSE LET y == parseBinaryExpr(ts, i + 1, Precedence(ts[i]) + 1)
         IN  binaryLoop(ts, BinaryExpr(x, ts[i], y.node), y.next, prec1)

parseBinaryExpr(ts, i, prec1) ==
    LET x == parseUnaryExpr(ts, i)
    IN  binaryLoop(ts, x.node, x.next, prec1)

\* package p; var _ = expression
ParseFile(ts) ==
    File(Ident(ts[2]),
         <<GenDecl(<<ValueSpec(<<Ident(ts[4])>>,
                               <<parseBinaryExpr(ts, 6, LowestPrec + 1).node>>)>>)>>)

(***************************************************************************)
(* The walk of one file by its goroutine in computeEdits.                  *)
(***************************************************************************)
detectInit ==
    /\ v_repr \in {"Edit", "Sparse"}
    /\ astFile \in {FileOf(e) : e \in Inputs}
    /\ walk = <<[op |-> "Walk", path |-> <<>>]>>
    /\ v_nodes = <<>>
    /\ v_edits = <<>>
    /\ v_offsets = {}
    /\ dpc = "walk"
    /\ applied = FALSE
    /\ v_missing = {}
    /\ mergeIdle
    /\ applyIdle
    /\ mainIdle
    /\ computeIdle

\* ast.Walk reaches a node: v.Visit(node), then the children are to be
\* walked and v.Visit(nil) called after them.
Visit ==
    /\ dpc = "walk"
    /\ walk # <<>>
    /\ Head(walk).op = "Walk"
    /\ LET path == Head(walk).path
           node == NodeAt(astFile, path)
           stack == IF v_repr = "Edit" THEN Append(v_nodes, path) ELSE v_nodes
       IN  /\ v_nodes' = stack
           /\ IF node.kind = "CallExpr"
                THEN IF v_repr = "Edit"
                        THEN /\ v_edits' = v_edits \o unconvert(astFile, path, stack)
                             /\ astFile' = afterUnconvert(astFile, path, stack)
                             /\ UNCHANGED v_offsets
                        ELSE /\ v_offsets' = v_offsets \cup unconvertSparse(astFile, path)
                             /\ UNCHANGED <<v_edits, astFile>>
                ELSE UNCHANGED <<v_edits, v_offsets, astFile>>
           /\ walk' = [k \in 1..Len(Children(node)) |->
                            [op |-> "Walk", path |-> Append(path, k)]]
                        \o <<[op |-> "Visit(nil)", path |-> path]>> \o Tail(walk)
    /\ UNCHANGED <<v_repr, dpc, applied, v_missing>>
    /\ UNCHANGED detectFrame

\* A Visit(nil) that leaves the node on v.nodes.
visitNilKeeps ==
    /\ dpc = "walk"
    /\ walk # <<>>
    /\ Head(walk).op = "Visit(nil)"
    /\ walk' = Tail(walk)
    /\ UNCHANGED <<v_repr, astFile, v_nodes, v_edits, v_offsets, dpc, applied, v_missing>>
    /\ UNCHANGED detectFrame

\* v.Visit(nil) after the children of a node.
VisitNil ==
    /\ dpc = "walk"
    /\ walk # <<>>
    /\ Head(walk).op = "Visit(nil)"
    /\ v_nodes' = IF v_repr = "Edit" THEN SubSeq(v_nodes, 1, Len(v_nodes) - 1) ELSE v_nodes
    /\ walk' = Tail(walk)
    /\ UNCHANGED <<v_repr, astFile, v_edits, v_offsets, dpc, applied, v_missing>>
    /\ UNCHANGED detectFrame

\* After the walk the goroutine sorts the Edits (the Sparse set needs no
\* sorting) and sends the file's result.
detectSend ==
    /\ dpc = "walk"
    /\ walk = <<>>
    /\ v_edits' \in sortEdits(v_edits)
    /\ dpc' = "sent"
    /\ UNCHANGED <<v_repr, astFile, walk, v_nodes, v_offsets, applied, v_missing>>
    /\ UNCHANGED detectFrame

detectNext ==
    \/ Visit
    \/ VisitNil
    \/ detectSend

SpecDetect == detectInit /\ [][detectNext]_vars

(***************************************************************************)
(* -apply on the file the detector has walked, and the next run of the     *)
(* tool on the file apply wrote.                                           *)
(***************************************************************************)
RECURSIVE withChildren(_, _, _)
withChildren(n, kids, k) ==
    IF k > Len(kids) THEN n
    ELSE withChildren(withChild(n, k, kids[k]), kids, k + 1)

\* ast.Walk(&editor, f): editor.Visit(n) rewrites each expression field of
\* n that holds a call whose Lparen offset is in the set to the call's
\* Args[0]; ast.Walk then walks the fields as they now are.  q is the
\* path of n in the tree as parsed, which is where its offsets come from.
RECURSIVE editorWalk(_, _, _)
editorWalk(orig, q, offs) ==
    LET n == NodeAt(orig, q)
        rewrite(k) ==
            LET f == Append(q, k)
            IN  IF NodeAt(orig, f).kind # "CallExpr" THEN f
                ELSE IF LparenOf(orig, f) \notin offs THEN f
                ELSE Append(f, 2)
    IN  withChildren(n, [k \in 1..Len(Children(n)) |->
                            editorWalk(orig, rewrite(k), offs)], 1)

\* format.Node and format.Source: the printer's text of a tree.
formatNode(f) == Fprint(f, LowestPrec)

\* The offsets e.edits.Remove takes out of the set during that walk: those
\* of the calls rewrite finds in a field of a node the walk visits.
RECURSIVE editorRemoved(_, _, _)
editorRemoved(orig, q, offs) ==
    LET n == NodeAt(orig, q)
        flagged(k) ==
            /\ NodeAt(orig, Append(q, k)).kind = "CallExpr"
            /\ LparenOf(orig, Append(q, k)) \in offs
    IN  UNION {(IF flagged(k) THEN {LparenOf(orig, Append(q, k))} ELSE {})
                \cup editorRemoved(orig,
                        IF flagged(k) THEN Append(Append(q, k), 2) ELSE Append(q, k),
                        offs) :
               k \in 1..Len(Children(n))}

\* apply of the intsets revision: parse, walk with the editor, which
\* removes from the edit set, format, write.
applyEditor ==
    /\ dpc = "sent"
    /\ v_repr = "Sparse"
    /\ v_offsets # {}
    /\ LET f == ParseFile(Source(astFile))
       IN  /\ astFile' = ParseFile(formatNode(editorWalk(f, <<>>, v_offsets)))
           /\ v_offsets' = v_offsets \ editorRemoved(f, <<>>, v_offsets)
    /\ dpc' = "written"
    /\ UNCHANGED <<v_repr, walk, v_nodes, v_edits, applied, v_missing>>
    /\ UNCHANGED detectFrame

\* apply of the Edit revision: overlap check, splice, format.Source, write.
applySpliced ==
    /\ dpc = "sent"
    /\ v_repr = "Edit"
    /\ v_edits # <<>>
    /\ ~overlap(v_edits)
    /\ LET b == spliceForward(Source(astFile), v_edits)
       IN  astFile' = ParseFile(formatNode(ParseFile(b)))
    /\ dpc' = "written"
    /\ UNCHANGED <<v_repr, walk, v_nodes, v_edits, v_offsets, applied, v_missing>>
    /\ UNCHANGED detectFrame

\* The tool is run once more, on the file apply wrote: a new visitor walks
\* the tree the parser gives for it.
runAgain ==
    /\ dpc = "written"
    /\ applied' = TRUE
    /\ walk' = <<[op |-> "Walk", path |-> <<>>]>>
    /\ v_nodes' = <<>>
    /\ v_edits' = <<>>
    /\ v_offsets' = {}
    /\ dpc' = "walk"
    /\ UNCHANGED <<v_repr, astFile, v_missing>>
    /\ UNCHANGED detectFrame

\* log.Fatal in apply: overlapping Edits, or an error of the parser, of
\* format or of the file system.  Nothing is written.
applyFatal ==
    /\ dpc = "sent"
    /\ \/ v_repr = "Sparse" /\ v_offsets # {}
       \/ v_repr = "Edit" /\ v_edits # <<>>
    /\ dpc' = "fatal"
    /\ UNCHANGED <<v_repr, astFile, walk, v_nodes, v_edits, v_offsets, applied, v_missing>>
    /\ UNCHANGED detectFrame

\* A walk with one expression missing from v.pkg.Types: the callee or the
\* first argument of one of the file's calls.
missingInit ==
    /\ v_repr \in {"Edit", "Sparse"}
    /\ astFile \in {FileOf(e) : e \in Inputs}
    /\ \E p \in {q \in Paths(astFile) : NodeAt(astFile, q).kind = "CallExpr"} :
         \E k \in 1..Len(Children(NodeAt(astFile, p))) :
            k <= 2 /\ v_missing = {Append(p, k)}
    /\ walk = <<[op |-> "Walk", path |-> <<>>]>>
    /\ v_nodes = <<>>
    /\ v_edits = <<>>
    /\ v_offsets = {}
    /\ dpc = "walk"
    /\ applied = FALSE
    /\ mergeIdle
    /\ applyIdle
    /\ mainIdle
    /\ computeIdle

SpecMissing == missingInit /\ [][detectNext]_vars

rerunNext ==
    \/ Visit
    \/ VisitNil
    \/ detectSend
    \/ applyEditor
    \/ applySpliced
    \/ applyFatal
    \/ runAgain

SpecRerun == detectInit /\ [][rerunNext]_vars

(***************************************************************************)
(* computeEdits: one goroutine per file of the initial packages walks the  *)
(* file and sends its result; the loop over the channel collects the map.  *)
(***************************************************************************)
ComputeFileNames == <<"a.go", "b.go", "c.go", "d.go">>

ComputeFiles == {ComputeFileNames[i] : i \in 1..NumFiles}

\* What the files hold: no conversion, nested conversions, two conversions
\* of which one keeps its parentheses, and a call that is no conversion.
ComputeInputs ==
    {CallExpr(Ident("g0"), <<>>, FALSE),
     Conv("int64", Conv("int64", Ident("v"))),
     BinaryExpr(Conv("float64", BinaryExpr(Ident("x"), "+", Ident("x"))),
                "*", Conv("float64", Ident("x"))),
     BinaryExpr(Conv("int64", BasicLit("0")), "+", Conv("int64", Ident("v")))}

\* The paths of the nodes from the root down to the node at path.
Prefixes(path) == [i \in 1..(Len(path) + 1) |-> SubSeq(path, 1, i - 1)]

\* ast.Walk(&v, file) from the node at path on: the edits the visitor
\* appends, in the order of the walk.
RECURSIVE walkFrom(_, _)
walkFrom(root, path) ==
    LET node == NodeAt(root, path)
        here == IF node.kind = "CallExpr"
                    THEN unconvert(root, path, Prefixes(path))
                    ELSE <<>>
    IN  here \o Flatten([k \in 1..Len(Children(node)) |->
                            walkFrom(root, Append(path, k))])

insertNonEmpty(m0, f, e) ==
    IF e = <<>> THEN m0
    ELSE [g \in DOMAIN m0 \cup {f} |-> IF g = f THEN e ELSE m0[g]]

\* m[r.file] = r.edits
insertEntry(m0, f, e) ==
    [g \in DOMAIN m0 \cup {f} |-> IF g = f THEN e ELSE m0[g]]

\* conf.Load has returned the files; their goroutines are started.
computeInit ==
    /\ ce_files \in [ComputeFiles -> {FileOf(e) : e \in ComputeInputs}]
    /\ ce_res = [f \in ComputeFiles |-> <<>>]
    /\ ce_wpc = [f \in ComputeFiles |-> "walk"]
    /\ ce_closed = FALSE
    /\ ce_m = EmptyMap
    /\ ce_pc = "recv"
    /\ mergeIdle
    /\ applyIdle
    /\ mainIdle
    /\ detectIdle

\* The goroutine of file f walks it with its own visitor, sorts the edits
\* and stands ready to send.
ceWalk(f) ==
    /\ ce_wpc[f] = "walk"
    /\ ce_wpc' = [ce_wpc EXCEPT ![f] = "send"]
    /\ \E es \in sortEdits(walkFrom(ce_files[f], <<>>)) :
            ce_res' = [ce_res EXCEPT ![f] = es]
    /\ UNCHANGED <<ce_files, ce_closed, ce_m, ce_pc>>
    /\ UNCHANGED computeFrame

\* The unbuffered channel hands the result of f's goroutine to the loop.
ceRecv(f) ==
    /\ ce_pc = "recv"
    /\ ~ce_closed
    /\ ce_wpc[f] = "send"
    /\ ce_wpc' = [ce_wpc EXCEPT ![f] = "sent"]
    /\ ce_m' = insertEntry(ce_m, f, ce_res[f])
    /\ UNCHANGED <<ce_files, ce_res, ce_closed, ce_pc>>
    /\ UNCHANGED computeFrame

\* The goroutine's deferred wg.Done.
ceDone(f) ==
    /\ ce_wpc[f] = "sent"
    /\ ce_wpc' = [ce_wpc EXCEPT ![f] = "done"]
    /\ UNCHANGED <<ce_files, ce_res, ce_closed, ce_m, ce_pc>>
    /\ UNCHANGED computeFrame

\* wg.Wait returns once every goroutine is done; then the channel is closed.
ceClose ==
    /\ ~ce_closed
    /\ \A f \in ComputeFiles : ce_wpc[f] = "done"
    /\ ce_closed' = TRUE
    /\ UNCHANGED <<ce_files, ce_res, ce_wpc, ce_m, ce_pc>>
    /\ UNCHANGED computeFrame

\* The range loop ends on the closed channel and computeEdits returns m.
ceReturn ==
    /\ ce_pc = "recv"
    /\ ce_closed
    /\ ce_pc' = "returned"
    /\ UNCHANGED <<ce_files, ce_res, ce_wpc, ce_closed, ce_m>>
    /\ UNCHANGED computeFrame

computeNext ==
    \/ \E f \in ComputeFiles : ceWalk(f)
    \/ \E f \in ComputeFiles : ceRecv(f)
    \/ \E f \in ComputeFiles : ceDone(f)
    \/ ceClose
    \/ ceReturn

\* What every step of computeEdits changes.
computePositions == <<ce_wpc, ce_closed, ce_pc>>

\* A goroutine that can run takes its step: a walk comes to its end
\* whatever it finds, a result is handed over, a goroutine ends, the
\* channel is closed, the loop ends.
computeScheduled ==
    \/ \E f \in ComputeFiles :
            /\ ce_wpc[f] = "walk"
            /\ ce_wpc' = [ce_wpc EXCEPT ![f] = "send"]
            /\ UNCHANGED <<ce_closed, ce_pc>>
    \/ \E f \in ComputeFiles : ceRecv(f)
    \/ \E f \in ComputeFiles : ceDone(f)
    \/ ceClose
    \/ ceReturn

\* computeEdits under a scheduler that runs some goroutine as long as one
\* can run.
SpecCompute ==
    computeInit /\ [][computeNext]_vars /\ WF_computePositions(computeScheduled)

(***************************************************************************)
(* Claims about the configuration merger.                                  *)
(***************************************************************************)
\* The configurations whose result holds file f.
PresentIn(f) == {c \in plats : f \in DOMAIN subRes[c]}

\* The edits of f that every configuration of cs emitted.
CommonEdits(f, cs) ==
    {e \in MergeEditUniverse : \A c \in cs : e \in Range(subRes[c][f])}

NoDuplicates(s) == \A i, j \in 1..Len(s) : i # j => s[i] # s[j]

\* C1: once mergeEdits has returned, a file that every configuration's
\* result holds has in the merged map exactly the edits (same Pos and End,
\* each once) that every configuration emitted for it; an edit that some
\* configuration did not emit is not in the merged entry.
C1_MergedIsCommonEdits ==
    mpc = "returned" =>
        \A f \in MergeFiles :
            PresentIn(f) = plats =>
                /\ f \in DOMAIN m
                /\ Range(m[f]) = CommonEdits(f, plats)
                /\ NoDuplicates(m[f])

\* C1 witness: every configuration holds a.go, one edit is emitted under
\* every configuration and is kept, another is emitted under the first
\* configuration only and is dropped.
C1_Witness ==
    /\ mpc = "returned"
    /\ PresentIn("a.go") = plats
    /\ Edit(0, 2) \in Range(m["a.go"])
    /\ Edit(3, 5) \in Range(subRes[1]["a.go"])
    /\ Edit(3, 5) \notin Range(subRes[2]["a.go"])
    /\ Edit(3, 5) \notin Range(m["a.go"])

\* C2: once mergeEdits has returned, the edits of a file that exactly one
\* configuration's result holds are all in the merged map.
C2_SingleConfigFileKept ==
    mpc = "returned" =>
        \A f \in MergeFiles : \A c \in plats :
            PresentIn(f) = {c} =>
                /\ f \in DOMAIN m
                /\ Range(m[f]) = Range(subRes[c][f])

\* C2 witness: a.go is compiled under the second configuration only, has
\* redundant conversions there, and they are in the merged map.
C2_Witness ==
    /\ mpc = "returned"
    /\ PresentIn("a.go") = {2}
    /\ Len(subRes[2]["a.go"]) = 2
    /\ m["a.go"] = subRes[2]["a.go"]

\* C3 as claimed: once mergeEdits has returned, a file absent from the
\* result of at least one configuration has no edits in the merged map.
C3_AbsentFileRemoved ==
    mpc = "returned" =>
        \A f \in MergeFiles :
            PresentIn(f) # plats => (f \notin DOMAIN m \/ m[f] = <<>>)

\* C3 as amended: once mergeEdits has returned, a file absent from the
\* result of at least one configuration has no entry in the merged map when
\* no configuration holds it, and otherwise has as its entry the edits
\* common to the configurations that do hold it.
C3_AbsentFileMergedOverPresent ==
    mpc = "returned" =>
        \A f \in MergeFiles :
            PresentIn(f) # plats =>
                IF PresentIn(f) = {}
                    THEN f \notin DOMAIN m
                    ELSE /\ f \in DOMAIN m
                         /\ Range(m[f]) = CommonEdits(f, PresentIn(f))

\* C3 witness: a.go is absent under the first configuration, the other two
\* disagree on one edit and agree on another, which stays in the merged map.
C3_Witness ==
    /\ mpc = "returned"
    /\ PresentIn("a.go") = plats \ {1}
    /\ Len(subRes[2]["a.go"]) = 2
    /\ subRes[3]["a.go"] = <<Edit(3, 5)>>
    /\ m["a.go"] = <<Edit(3, 5)>>

\* C4: whatever order the results arrive in, the map mergeEdits returns has
\* the same files, and for each file the same set of edits, as the fold of
\* the configurations' maps in table order.
C4_MergeOrderIndependent ==
    mpc = "returned" =>
        LET seqM == mergeEditsSeq(subRes, NumPlats) IN
            /\ DOMAIN m = DOMAIN seqM
            /\ \A f \in DOMAIN m : Range(m[f]) = Range(seqM[f])

\* C4 witness: the results arrived in the reverse of the table order, the
\* three configurations returned three different maps, and an edit survived.
C4_Witness ==
    /\ mpc = "returned"
    /\ recvOrder = <<3, 2, 1>>
    /\ subRes[1] # subRes[2]
    /\ subRes[2] # subRes[3]
    /\ subRes[1] # subRes[3]
    /\ m["a.go"] # <<>>

\* The fold of the first k received maps, in the order of their arrival.
RECURSIVE FoldReceived(_)
FoldReceived(k) ==
    IF k = 0 THEN EmptyMap
    ELSE mergeFold(FoldReceived(k - 1), subRes[recvOrder[k]])

\* Each worker's result is received at most once, and exactly the workers
\* past their send have been received; m is the fold of what was received;
\* the channel is closed only when no worker has a send ahead of it; and
\* mergeEdits has returned only with every configuration's result folded.
ChannelProtocol ==
    /\ NoDuplicates(recvOrder)
    /\ \A c \in plats : (c \in Range(recvOrder)) <=> (wpc[c] \in {"sent", "done"})
    /\ m = FoldReceived(Len(recvOrder))
    /\ chClosed => \A c \in plats : wpc[c] = "done"
    /\ mpc = "returned" => Range(recvOrder) = plats

\* C18: mergeEdits receives exactly one result from each configuration's
\* worker, in whatever order, folds each into m and returns only when all
\* are folded; nothing is sent on the closed channel; and no worker stays
\* blocked on its send and the receiver does not stay blocked: every worker
\* ends and mergeEdits returns.
C18_EveryResultReceivedOnce ==
    /\ []ChannelProtocol
    /\ <>(mpc = "returned" /\ \A c \in plats : wpc[c] = "done")

\* mergeEdits has returned after the last configuration's result arrived
\* first, with an edit that survived the merge.
C18_Witness ==
    /\ mpc = "returned"
    /\ hasWG
    /\ chClosed
    /\ recvOrder[1] = NumPlats
    /\ \A c \in plats : wpc[c] = "done"
    /\ "a.go" \in DOMAIN m
    /\ m["a.go"] # <<>>

(***************************************************************************)
(* Claims about the edit applier.                                          *)
(***************************************************************************)
\* Some later edit of the sorted slice starts before an earlier one ends.
SomePairOverlaps(es) ==
    \E i, j \in 1..Len(es) : i < j /\ es[j].Pos < es[i].End

\* s and t hold the same elements, each as often.
SameElements(s, t) ==
    /\ Len(s) = Len(t)
    /\ \A x \in Range(s) \cup Range(t) :
        Cardinality({i \in 1..Len(s) : s[i] = x}) =
            Cardinality({i \in 1..Len(t) : t[i] = x})

\* C10: past its check, apply holds the caller's edits sorted by start
\* offset; it has called log.Fatal("overlap") if and only if some later
\* edit starts before an earlier one ends (edits that only touch do not
\* count), and then the file was neither read nor written.
C10_FatalIffOverlap ==
    apc \notin {"idle", "start"} =>
        /\ SameElements(edits, editsIn)
        /\ \A i \in 2..Len(edits) : edits[i - 1].Pos <= edits[i].Pos
        /\ (fatal = "overlap") <=> SomePairOverlaps(edits)
        /\ fatal = "overlap" =>
            apc = "fatal" /\ ~didRead /\ ~didWrite /\ disk = diskIn /\ buf = <<>>

\* C10 witness: the caller's slice is unsorted; sorted, its first two edits
\* touch and its last two overlap, and apply has stopped before reading.
C10_Witness ==
    /\ editsIn = <<Edit(1, 3), Edit(0, 1), Edit(2, 3)>>
    /\ edits = <<Edit(0, 1), Edit(1, 3), Edit(2, 3)>>
    /\ apc = "fatal"
    /\ fatal = "overlap"
    /\ ~didRead

(***************************************************************************)
(* Claims about the driver.                                                *)
(***************************************************************************)
\* main holds at least one unnecessary conversion in its map.
FoundConversion == \E f \in DOMAIN mm : mm[f] # {}

\* C5 as claimed: when the process has ended, its status is non-zero if a
\* redundant conversion was found (in report mode and in apply mode) or a
\* fatal error occurred, and it is zero only if no conversion was found.
C5_NonZeroExitWhenFound ==
    mainPc = "exited" =>
        /\ FoundConversion => exitCode # 0
        /\ exitCode = 0 => ~FoundConversion

\* The process has ended in the log.Fatal that follows a failed conf.Load:
\* of the only configuration, or of one of plats before the loop was over.
FrontEndFailed ==
    /\ mainPc = "exited"
    /\ exitCode = 1
    /\ IF flagAll THEN platIdx <= NumPlats ELSE mm = EmptyMap

\* C16: until main has its map no goroutine of apply has been started, no
\* file written and no diagnostic printed; so a run the front end has
\* ended, for whichever configuration, has written no file and printed
\* nothing.
C16_NoPartialOutput ==
    /\ mainPc = "start" =>
            /\ written = {}
            /\ out = <<>>
            /\ \A f \in DOMAIN tasks : tasks[f] = "none"
    /\ FrontEndFailed => written = {} /\ out = <<>>

\* With -all the load of the last configuration fails after the earlier
\* ones had found a conversion.
C16_Witness ==
    /\ FrontEndFailed
    /\ flagAll
    /\ platIdx = NumPlats
    /\ FoundConversion
    /\ written = {}
    /\ out = <<>>

\* In the apply phase there is one task for each key of m and no other; a
\* file is written only when its own task has run to its end; and when
\* main has returned every task is done and every file with a conversion
\* is written.
TasksMatchFiles ==
    flagApply /\ mainPc \in {"apply", "exited"} =>
        /\ DOMAIN tasks = DOMAIN mm
        /\ written \subseteq {f \in DOMAIN mm : mm[f] # {} /\ tasks[f] = "done"}
        /\ (mainPc = "exited" /\ exitCode = 0) =>
                \A f \in DOMAIN mm :
                    tasks[f] = "done" /\ (mm[f] # {} => f \in written)

\* A step writes a file only as the step that ends the file's running
\* task, and a task that is done is never run again.
OneWritePerTask ==
    \A f \in MainFiles :
        /\ (f \in written' /\ f \notin written) =>
                f \in DOMAIN tasks /\ tasks[f] = "running" /\ tasks'[f] = "done"
        /\ (f \in DOMAIN tasks /\ tasks[f] = "done") =>
                f \in DOMAIN tasks' /\ tasks'[f] = "done"

\* C17: in the apply phase each file of the merged map is rewritten by
\* exactly one task, its own, and main returns only after every task has
\* finished.
C17_OneTaskPerFileAndWait == []TasksMatchFiles /\ [][OneWritePerTask]_vars

\* main has returned from an apply phase that rewrote both files.
C17_Witness ==
    /\ flagApply
    /\ mainPc = "exited"
    /\ exitCode = 0
    /\ written = MainFiles
    /\ \A f \in MainFiles : tasks[f] = "done"

(***************************************************************************)
(* Claims about the detector.                                              *)
(***************************************************************************)
\* The call nodes of a file.
CallPaths(root) == {p \in Paths(root) : NodeAt(root, p).kind = "CallExpr"}

\* The Edits that delete the callee of the call at path p, with or without
\* its parentheses.
EditsOf(root, p) ==
    {Edit(PosOf(root, p), LparenOf(root, p)),
     Edit(PosOf(root, p), LparenOf(root, p) + 1),
     Edit(RparenOf(root, p), RparenOf(root, p) + 1)}

\* Whether the visitor holds an edit for the call at path p.
Emitted(p) ==
    IF v_repr = "Edit"
        THEN Range(v_edits) \cap EditsOf(astFile, p) # {}
        ELSE LparenOf(astFile, p) \in v_offsets

\* One argument, no ellipsis, and a callee the type checker resolved to a type.
IsConversion(call) ==
    Len(call.Args) = 1 /\ ~call.Ellipsis /\ exprInternal(call.Fun).mode = "type"

\* By the type checker: a constant of an untyped type.
UntypedConstant(e) == exprInternal(e).const /\ IsUntyped(exprInternal(e).typ)

\* An identifier that denotes a variable of type T.
VariableOfType(e, T) == e.kind = "Ident" /\ exprInternal(e) = Value(T, FALSE)

GuardsFusion(root, p) ==
    LET call == NodeAt(root, p)
    IN  /\ IsConversion(call)
        /\ exprInternal(call.Fun).typ \in {"float64", "complex128"}
        /\ exprInternal(call.Args[1]).typ = exprInternal(call.Fun).typ
        /\ unparen(call.Args[1]).kind = "BinaryExpr"
        /\ unparen(call.Args[1]).Op = "*"
        /\ p # <<>>
        /\ NodeAt(root, Up(p)).kind = "BinaryExpr"
        /\ NodeAt(root, Up(p)).Op = "+"

\* C7: the detector holds no edit for a same-type floating-point conversion
\* that keeps a product from fusing with a sum, as in f1 + float64(f2*f3).
C7_FusedFloatNotFlagged ==
    dpc # "idle" =>
        \A p \in CallPaths(astFile) : GuardsFusion(astFile, p) => ~Emitted(p)

\* C8: every edit the detector holds belongs to a call with exactly one
\* argument, no ellipsis and a callee that resolves to a type; a call with
\* another number of arguments, an ellipsis or a value for callee has none.
C8_OnlyConversionsFlagged ==
    dpc # "idle" =>
        /\ \A p \in CallPaths(astFile) :
                ~IsConversion(NodeAt(astFile, p)) => ~Emitted(p)
        /\ \A e \in Range(v_edits) :
                \E p \in CallPaths(astFile) :
                    IsConversion(NodeAt(astFile, p)) /\ e \in EditsOf(astFile, p)
        /\ \A o \in v_offsets :
                \E p \in CallPaths(astFile) :
                    IsConversion(NodeAt(astFile, p)) /\ o = LparenOf(astFile, p)

\* A walked file in which a variable of function type F is called with an
\* argument of type F that is itself a flagged conversion, as in fn(F(fn)).
C8_Witness ==
    /\ dpc = "sent"
    /\ \E p, q \in CallPaths(astFile) :
        LET cp == NodeAt(astFile, p)
        IN  /\ exprInternal(cp.Fun) = Value("F", FALSE)
            /\ Len(cp.Args) = 1
            /\ exprInternal(cp.Args[1]).typ = "F"
            /\ ~Emitted(p)
            /\ q = Append(p, 2)
            /\ IsConversion(NodeAt(astFile, q))
            /\ Emitted(q)

\* C9: the Edits the detector holds for a file are pairwise non-overlapping.
C9_EditsNonOverlapping ==
    \A i, j \in 1..Len(v_edits) :
        i # j => v_edits[i].End <= v_edits[j].Pos \/ v_edits[j].End <= v_edits[i].Pos

(***************************************************************************)
(* Claims about the splicing of apply.                                     *)
(***************************************************************************)
\* Whether some edit of es deletes the byte at offset off.
Deleted(es, off) == \E k \in 1..Len(es) : es[k].Pos <= off /\ off < es[k].End

\* The bytes of b from offset off on that no edit of es deletes, in order.
RECURSIVE KeptFrom(_, _, _)
KeptFrom(b, es, off) ==
    IF off >= Len(b) THEN <<>>
    ELSE (IF Deleted(es, off) THEN <<>> ELSE <<b[off + 1]>>) \o KeptFrom(b, es, off + 1)

RECURSIVE DeletedLength(_)
DeletedLength(es) ==
    IF Len(es) = 0 THEN 0 ELSE (Head(es).End - Head(es).Pos) + DeletedLength(Tail(es))

\* C11: for non-overlapping edits, supplied in any order, the backward
\* in-place loop and the forward-copy loop leave the same buffer: the bytes
\* of the file that no edit deletes, in their order, as many as the file
\* has less the lengths of the edits.
C11_SplicesAgree ==
    apc \in {"splice", "format"} =>
        /\ spliceReverse(diskIn, edits, Len(edits)) = spliceForward(diskIn, edits)
        /\ spliceForward(diskIn, edits) = KeptFrom(diskIn, editsIn, 0)
        /\ apc = "format" =>
            /\ buf = KeptFrom(diskIn, editsIn, 0)
            /\ Len(buf) = Len(diskIn) - DeletedLength(editsIn)

\* Two edits supplied out of order have been cut out of the buffer.
C11_Witness ==
    /\ apc = "format"
    /\ editsIn = <<Edit(2, 3), Edit(0, 1)>>
    /\ diskIn = <<0, 1, 0>>
    /\ buf = <<1>>

(***************************************************************************)
(* Claims about keepParen and the shape of the edits.                      *)
(***************************************************************************)
\* The detector deleted the callee of the call at p and kept its parentheses:
\* keepParen reported that they are required.
ParenKept(p) == Edit(PosOf(astFile, p), LparenOf(astFile, p)) \in Range(v_edits)

\* The detector deleted the callee of the call at p with its parentheses.
ParenDropped(p) == Edit(PosOf(astFile, p), LparenOf(astFile, p) + 1) \in Range(v_edits)

\* The text of the parent of the call at p with the call replaced by e.
RenderWith(root, p, e) == Fprint(withChild(NodeAt(root, Up(p)), Last(p), e), LowestPrec)

RendersSame(root, p) ==
    LET arg == NodeAt(root, p).Args[1]
    IN  RenderWith(root, p, arg) = RenderWith(root, p, ParenExpr(arg))

\* C12 as stated: keepParen reports the parentheses required if and only if
\* the parent renders differently with the bare and with the parenthesized
\* argument.
C12_RequiredIffRenderingsDiffer ==
    v_repr = "Edit" =>
        \A p \in CallPaths(astFile) :
            ParenKept(p) \/ ParenDropped(p) => (ParenKept(p) <=> ~RendersSame(astFile, p))

\* C12: keepParen reports the parentheses required if and only if the parent
\* renders the same with the bare and with the parenthesized argument.
C12_RequiredIffRenderingsEqual ==
    v_repr = "Edit" =>
        \A p \in CallPaths(astFile) :
            ParenKept(p) \/ ParenDropped(p) => (ParenKept(p) <=> RendersSame(astFile, p))

\* float64(x + x) * float64(x) is walked: the printer parenthesizes the sum
\* under the product by itself, and the parentheses of the first conversion
\* are kept.
C12_Witness ==
    /\ v_repr = "Edit"
    /\ dpc = "sent"
    /\ astFile = FileOf(BinaryExpr(Conv("float64", BinaryExpr(Ident("x"), "+", Ident("x"))),
                                   "*", Conv("float64", Ident("x"))))
    /\ ParenKept(<<2, 1, 2, 1>>)
    /\ RenderWith(astFile, <<2, 1, 2, 1>>, BinaryExpr(Ident("x"), "+", Ident("x")))
            = <<"(", "x", "+", "x", ")", "*", "float64", "(", "x", ")">>

\* The edits the visitor holds for the call at p, and the text of the file
\* without the bytes they delete.
HeldFor(p) == Range(v_edits) \cap EditsOf(astFile, p)

TextWithout(p) ==
    LET es == CHOOSE t \in [1..Cardinality(HeldFor(p)) -> HeldFor(p)] : Range(t) = HeldFor(p)
    IN  KeptFrom(Source(astFile), es, 0)

\* C13: for a flagged conversion whose parentheses the oracle requires, the
\* detector holds the one edit from the start of the callee to the opening
\* parenthesis, and what is left of the call is the parenthesized argument;
\* for any other flagged conversion it holds the edit from the start of the
\* callee through the opening parenthesis and the one-byte edit of the
\* closing parenthesis, and what is left is the bare argument.
C13_EditShape ==
    v_repr = "Edit" =>
        \A p \in CallPaths(astFile) :
            HeldFor(p) # {} =>
                LET call == NodeAt(astFile, p)
                    arg == call.Args[1]
                IN  IF keepParen(NodeAt(astFile, Up(p)), Last(p), arg)
                        THEN /\ HeldFor(p) = {Edit(PosOf(astFile, p), LparenOf(astFile, p))}
                             /\ TextWithout(p) = Source(ReplaceAt(astFile, p, ParenExpr(arg)))
                        ELSE /\ HeldFor(p) = {Edit(PosOf(astFile, p), LparenOf(astFile, p) + 1),
                                              Edit(RparenOf(astFile, p), RparenOf(astFile, p) + 1)}
                             /\ TextWithout(p) = Source(ReplaceAt(astFile, p, arg))

\* A walked file with a conversion whose parentheses are kept and one whose
\* parentheses are deleted.
C13_Witness ==
    /\ v_repr = "Edit"
    /\ dpc = "sent"
    /\ \E p, q \in CallPaths(astFile) :
        /\ ParenKept(p) /\ ~ParenDropped(p)
        /\ ParenDropped(q) /\ ~ParenKept(q)
        /\ Edit(RparenOf(astFile, q), RparenOf(astFile, q) + 1) \in Range(v_edits)

(***************************************************************************)
(* Claims about running the tool again on what apply wrote.                *)
(***************************************************************************)

\* C14: the detector run on a file that apply has rewritten detects
\* nothing: no conversion flagged before is still there and none is new.
C14_NothingDetectedAfterApply ==
    applied => v_edits = <<>> /\ v_offsets = {}

\* The same for the Edit revision alone, whose apply splices the text.
C14_SplicedLeavesNothing ==
    applied /\ v_repr = "Edit" => v_edits = <<>>

(***************************************************************************)
(* Claims about expressions the type table has no entry for.               *)
(***************************************************************************)
\* Whether the table lacks the callee or the first argument of the call at p.
LacksEntry(p) ==
    \/ Append(p, 1) \in v_missing
    \/ Len(NodeAt(astFile, p).Args) >= 1 /\ Append(p, 2) \in v_missing

\* C15: the visitor holds no edit for a call whose callee or argument has
\* no entry in the type table, the walk goes on to its end, and the calls
\* that have their entries are flagged as they otherwise are: every T(v)
\* with v a variable of type T.
C15_MissingEntrySkipped ==
    /\ dpc \in {"walk", "sent"}
    /\ \A p \in CallPaths(astFile) :
            LET call == NodeAt(astFile, p)
            IN  /\ LacksEntry(p) => ~Emitted(p)
                /\ (/\ dpc = "sent"
                    /\ ~LacksEntry(p)
                    /\ IsConversion(call)
                    /\ VariableOfType(call.Args[1], exprInternal(call.Fun).typ))
                        => Emitted(p)

\* float64(x + x) * float64(x) walked with no entry for x + x: the first
\* conversion is not flagged and the second is.
C15_Witness ==
    /\ dpc = "sent"
    /\ astFile = FileOf(BinaryExpr(Conv("float64", BinaryExpr(Ident("x"), "+", Ident("x"))),
                                   "*", Conv("float64", Ident("x"))))
    /\ v_missing = {<<2, 1, 2, 1, 2>>}
    /\ ~Emitted(<<2, 1, 2, 1>>)
    /\ Emitted(<<2, 1, 2, 2>>)

(***************************************************************************)
(* Claims about computeEdits.                                              *)
(***************************************************************************)
\* m holds an entry for exactly the files whose result has been received,
\* each entry the edits the walk of that file finds, each once; the channel
\* is closed only when every goroutine is past its send; and computeEdits
\* has returned only with an entry for every file.
FanIn ==
    /\ DOMAIN ce_m = {f \in ComputeFiles : ce_wpc[f] \in {"sent", "done"}}
    /\ \A f \in DOMAIN ce_m :
            /\ SameElements(ce_m[f], walkFrom(ce_files[f], <<>>))
            /\ \A i \in 2..Len(ce_m[f]) : ce_m[f][i - 1].Pos <= ce_m[f][i].Pos
    /\ ce_closed => \A f \in ComputeFiles : ce_wpc[f] = "done"
    /\ ce_pc = "returned" => DOMAIN ce_m = ComputeFiles

\* C19: the map computeEdits returns has an entry for every file of the
\* initial packages, empty for a file without a flagged conversion, each
\* entry exactly the edits found in its file whatever order the goroutines
\* finish in; and the collecting loop ends.
C19_EntryForEveryFile == []FanIn /\ <>(ce_pc = "returned")

\* computeEdits has returned with an empty entry for a.go, which holds no
\* conversion, and the four edits of int64(int64(v)) for b.go.
C19_Witness ==
    /\ ce_pc = "returned"
    /\ ce_files["a.go"] = FileOf(CallExpr(Ident("g0"), <<>>, FALSE))
    /\ ce_m["a.go"] = <<>>
    /\ ce_files["b.go"] = FileOf(Conv("int64", Conv("int64", Ident("v"))))
    /\ Len(ce_m["b.go"]) = 4

(***************************************************************************)
(* Claims about the visitor's node stack.                                  *)
(***************************************************************************)
\* C20: when Visit is about to be called with the node at path p, v.nodes
\* holds the nodes from the root down to p's parent, so that with p pushed
\* it is the path from the root to p and, for a call, the element below
\* the top is the call's parent, the node that holds the call among its
\* children; when Visit(nil) is about to be called for p, v.nodes is the
\* path to p; and when the walk is over v.nodes is empty.
C20_StackIsPathFromRoot ==
    v_repr = "Edit" /\ dpc \in {"walk", "sent"} =>
        IF walk = <<>> THEN v_nodes = <<>>
        ELSE LET p == Head(walk).path
                 stack == Append(v_nodes, p)
             IN  IF Head(walk).op = "Walk"
                    THEN /\ stack = Prefixes(p)
                         /\ NodeAt(astFile, p).kind = "CallExpr" =>
                                /\ Len(stack) >= 2
                                /\ stack[Len(stack) - 1] = Up(p)
                                /\ Children(NodeAt(astFile, Up(p)))[Last(p)]
                                        = NodeAt(astFile, p)
                    ELSE v_nodes = Prefixes(p)

\* Visit is about to be called with the inner call of int64(int64(v)): the
\* stack holds the file, the declaration, the spec and the outer call.
C20_Witness ==
    /\ v_repr = "Edit"
    /\ dpc = "walk"
    /\ astFile = FileOf(Conv("int64", Conv("int64", Ident("v"))))
    /\ walk # <<>>
    /\ Head(walk) = [op |-> "Walk", path |-> <<2, 1, 2, 2>>]
    /\ v_nodes = << <<>>, <<2>>, <<2, 1>>, <<2, 1, 2>> >>

(***************************************************************************)
(* Claims about the classifiers of untyped values.                         *)
(***************************************************************************)
\* The expressions of the file: the nodes the classifiers can be given.
Subexprs(root) ==
    {n \in {NodeAt(root, p) : p \in Paths(root)} :
        n.kind \in {"Ident", "BasicLit", "ParenExpr", "UnaryExpr", "BinaryExpr",
                    "SelectorExpr", "CallExpr", "ArrayType"}}

\* The built-in a call's callee names, through any parentheses.
CalledBuiltin(n) ==
    IF n.kind = "CallExpr" /\ unparen(n.Fun).kind = "Ident"
            /\ unparen(n.Fun).Name \in {"real", "complex"}
        THEN unparen(n.Fun).Name
        ELSE ""

\* The rules by the shape of n: a shift by its left operand, a comparison
\* always, another binary expression by both operands, a unary or
\* parenthesized expression by its operand, a literal always, real by its
\* argument and complex by both, and nothing else.
ByStructure(n) ==
    CASE n.kind = "BinaryExpr" /\ n.Op = "<<" -> isUntypedValue(n.X)
      [] n.kind = "BinaryExpr" /\ n.Op = "==" -> TRUE
      [] n.kind = "BinaryExpr" /\ n.Op \notin {"<<", "=="} ->
            isUntypedValue(n.X) /\ isUntypedValue(n.Y)
      [] n.kind = "UnaryExpr" -> isUntypedValue(n.X)
      [] n.kind = "ParenExpr" -> isUntypedValue(n.X)
      [] n.kind = "BasicLit" -> TRUE
      [] CalledBuiltin(n) = "real" -> isUntypedValue(n.Args[1])
      [] CalledBuiltin(n) = "complex" ->
            isUntypedValue(n.Args[1]) /\ isUntypedValue(n.Args[2])
      [] OTHER -> FALSE

\* An identifier that denotes nil or a constant of an untyped type.
NamesUntyped(id) ==
    /\ id.Name \in DOMAIN Universe
    /\ \/ id.Name = "nil"
       \/ Universe[id.Name].const /\ IsUntyped(Universe[id.Name].typ)

\* C21: isUntypedValue classifies every expression of the file by the
\* rules of its shape, except an identifier, which is untyped iff it
\* denotes nil or an untyped constant, and a selector, which is classified
\* as the identifier it selects.
C21_StructuralRulesAndNames ==
    \A n \in Subexprs(astFile) :
        isUntypedValue(n) =
            CASE n.kind = "Ident" -> NamesUntyped(n)
              [] n.kind = "SelectorExpr" -> isUntypedValue(n.Sel)
              [] OTHER -> ByStructure(n)

\* C21 as stated: every expression that is none of the listed shapes is
\* typed, identifiers included.
C21_StructuralRulesOnly ==
    \A n \in Subexprs(astFile) : isUntypedValue(n) = ByStructure(n)

\* The intsets detector has walked var _ = int64(-c): the operand is the
\* negation of the untyped constant c, classified untyped as c is, and the
\* conversion was not flagged.
C21_Witness ==
    /\ v_repr = "Sparse"
    /\ dpc = "sent"
    /\ astFile = FileOf(Conv("int64", UnaryExpr("-", Ident("c"))))
    /\ isUntypedValue(Ident("c"))
    /\ isUntypedValue(UnaryExpr("-", Ident("c")))
    /\ v_offsets = {}


\* A shift, a comparison or the identifier nil.
ShiftComparisonOrNil(n) ==
    \/ n.kind = "BinaryExpr" /\ n.Op \in {"<<", "=="}
    \/ n.kind = "Ident" /\ n.Name = "nil"

\* C22: hasUntypedValue classifies an expression of the file as untyped
\* only when the expression itself is a shift, a comparison or nil; a call
\* or an addition with one of these inside an operand or argument is typed.
C22_UntypedOnlyAtTheRoot ==
    \A n \in Subexprs(astFile) : hasUntypedValue(n) = ShiftComparisonOrNil(n)


(***************************************************************************)
(* Claims about the frame of keepParen.                                    *)
(***************************************************************************)
\* The parent's slot found for every call of the file is the slot that
\* holds the call.
CallsAreFound ==
    \A p \in CallPaths(astFile) :
        findExprField(NodeAt(astFile, Up(p)), Last(p)) = Last(p)

\* C23: a step of the walk, the calls of keepParen included, leaves the
\* syntax tree as it was: the slot of the parent that held the call holds
\* that call again, and so the rest of the walk and the later oracle
\* queries see the original tree.
C23_KeepParenRestoresTree ==
    [][/\ astFile' = astFile
       /\ CallsAreFound
       /\ \A p \in CallPaths(astFile) :
            Len(NodeAt(astFile, p).Args) = 1 =>
                keepParenLeaves(NodeAt(astFile, Up(p)), Last(p),
                                NodeAt(astFile, p).Args[1]) = NodeAt(astFile, Up(p))]_vars

\* unconvert has called keepParen for both conversions of
\* float64(x + x) * float64(x), once with the answer true and once with
\* false, and the walk goes on in the tree as parsed.
C23_Witness ==
    /\ v_repr = "Edit"
    /\ dpc = "walk"
    /\ astFile = FileOf(BinaryExpr(Conv("float64", BinaryExpr(Ident("x"), "+", Ident("x"))),
                                   "*", Conv("float64", Ident("x"))))
    /\ Len(v_edits) = 3
    /\ walk # <<>>


(***************************************************************************)
(* Claims about the report.                                                *)
(***************************************************************************)
\* The column of the terminal after the runes rs: a tab moves to the next
\* multiple of eight, any other rune one column on.
RECURSIVE Width(_)
Width(rs) ==
    IF rs = <<>> THEN 0
    ELSE LET w == Width(SubSeq(rs, 1, Len(rs) - 1))
         IN  IF rs[Len(rs)] = "\t" THEN w + 8 - (w % 8) ELSE w + 1

\* The place of a file name in the ascending order of names.
FileRank(name) == CHOOSE i \in 1..Len(MainFileOrder) : MainFileOrder[i] = name

\* The offset in the file of the position a diagnostic names.
OffsetOf(d) ==
    CHOOSE p \in 0..(Len(ReadFile(d.Filename)) - 1) :
        /\ Position(ReadFile(d.Filename), p).Line = d.Line
        /\ Position(ReadFile(d.Filename), p).Column = d.Column

\* The files printed so far, in ascending order of name, and the offsets
\* m holds for them.
Reported == {<<f, p>> : f \in {sortStrings(DOMAIN mm)[i] : i \in 1..printIdx},
                        p \in MainOffsets} \cap
            {fp \in MainFiles \X MainOffsets : fp[2] \in mm[fp[1]]}

C25_EditSetConsumed ==
    dpc = "written" /\ v_repr = "Sparse" => v_offsets = {}


(***************************************************************************)
(* Claims about apply on an empty edit list.                               *)
(***************************************************************************)
\* C26: apply called with an empty edit list returns at once: the file is
\* neither read nor reformatted nor written and holds the bytes it held.
C26_EmptyListLeavesFile ==
    editsIn = <<>> /\ apc # "idle" =>
        /\ apc \in {"start", "returned"}
        /\ ~didRead
        /\ ~didWrite
        /\ buf = <<>>
        /\ fatal = ""
        /\ disk = diskIn

\* In apply mode main's goroutines write no file whose set in m is empty.
C26_MainWritesOnlyEditedFiles ==
    \A f \in written : f \in DOMAIN mm /\ mm[f] # {}

\* apply has returned for an empty list and a file format.Source would
\* have changed.
C26_Witness ==
    /\ apc = "returned"
    /\ editsIn = <<>>
    /\ disk = diskIn
    /\ formatSource(diskIn) # diskIn
    /\ ~didRead

====
